---- MODULE Spec2Model ----
(***************************************************************************)
(* State-machine model of the onetap structure merge: the smartMerge walk  *)
(* (src/utils/smartMerger.js), the two StructureValidator variants that    *)
(* feed it (src/utils/projectDetector.js) and the filesystem they act on.  *)
(*                                                                         *)
(* A path is a sequence of segments from the filesystem root, a file's     *)
(* content is a sequence of lexical tokens (whitespace tokens, comment     *)
(* markers, words), a node name is a string as in the source.              *)
(***************************************************************************)
EXTENDS Integers, Sequences, FiniteSets, TLC

VARIABLES disk, disk0, tree, tree0, targetDir, opts, validator,
          pc, work, stats, log, runs, results,
          input, lines, root, stack, plog, ppc,
          genOptions, genStats, setup, rl, cwd

(* the state of the merge, of parseFolderTree, of the TemplateGenerator    *)
(* and of the commands: the setup in progress, the readline interface of   *)
(* createFromStructure and the working directory of the process            *)
mergeVars == <<disk, disk0, tree, tree0, targetDir, opts, validator,
               pc, work, stats, log, runs, results>>
parseVars == <<input, lines, root, stack, plog, ppc>>
genVars == <<genOptions, genStats>>
setupVars == <<setup, rl, cwd>>

vars == <<mergeVars, parseVars, genVars, setupVars>>

(* Number of consecutive smartMerge calls on the same tree object. *)
MaxRuns == 2

(***************************************************************************)
(* Strings                                                                 *)
(***************************************************************************)

(* String.prototype.toLowerCase on the names of the model's universe: the *)
(* names written with capitals are listed, every other name is already    *)
(* lower case.                                                             *)
Lower(s) ==
  CASE s = "README.md" -> "readme.md"
    [] s = "LICENSE" -> "license"
    [] s = "Dockerfile" -> "dockerfile"
    [] s = "Dist" -> "dist"
    [] s = ".Git" -> ".git"
    [] OTHER -> s

(* path.extname(filename).toLowerCase() on the names of the universe; a    *)
(* leading dot (".env") is not an extension.                               *)
ExtName(s) ==
  CASE s \in {"app.js", "vite.config.js"} -> ".js"
    [] s = "index.css" -> ".css"
    [] s = "README.md" -> ".md"
    [] s = "package.json" -> ".json"
    [] s = "notes.txt" -> ".txt"
    [] OTHER -> ""

(* path.basename(filename, ext).toLowerCase() *)
BaseNoExt(s) ==
  CASE s = "app.js" -> "app"
    [] s = "vite.config.js" -> "vite.config"
    [] s = "index.css" -> "index"
    [] s = "README.md" -> "readme"
    [] s = "package.json" -> "package"
    [] s = "notes.txt" -> "notes"
    [] OTHER -> Lower(s)

(* The segments path.join splits a node name into: a name may hold "/". *)
Segments(s) ==
  IF s = "dist/assets" THEN <<"dist", "assets">> ELSE <<s>>

(* path.join(dir, rel) for an already split relative path *)
Join(dir, rel) == dir \o rel

(* path.basename(dir); the basename of the root "/" is the empty string *)
Basename(p) == IF Len(p) = 0 THEN "" ELSE p[Len(p)]

Parent(p) == SubSeq(p, 1, Len(p) - 1)

Prefixes(p) == { SubSeq(p, 1, k) : k \in 0..Len(p) }

IsPrefix(p, q) == Len(p) <= Len(q) /\ SubSeq(q, 1, Len(p)) = p

(***************************************************************************)
(* File content as tokens                                                  *)
(***************************************************************************)

IsSpace(t) == t \in {" ", "\n", "\t"}

RECURSIVE TrimLeft(_)
TrimLeft(c) ==
  IF c # <<>> /\ IsSpace(Head(c)) THEN TrimLeft(Tail(c)) ELSE c

RECURSIVE TrimRight(_)
TrimRight(c) ==
  IF c # <<>> /\ IsSpace(c[Len(c)]) THEN TrimRight(SubSeq(c, 1, Len(c) - 1)) ELSE c

(* String.prototype.trim *)
Trim(c) == TrimRight(TrimLeft(c))

Empty == <<>>
Blank == <<" ", "\n">>
Code == <<"console.log(\"x\")">>
CommentOnly == <<"//", " ", "todo">>
EmptyObject == <<"{", "}">>
CommentThenCode == <<"//", " ", "entry", "\n", "console.log(\"x\")">>

(***************************************************************************)
(* Filesystem                                                              *)
(***************************************************************************)

DirEntry == [kind |-> "dir", content |-> <<>>, readable |-> TRUE]
FileEntry(c, r) == [kind |-> "file", content |-> c, readable |-> r]

(* fs.existsSync *)
Exists(d, p) == p \in DOMAIN d

IsDir(d, p) == p \in DOMAIN d /\ d[p].kind = "dir"
IsFile(d, p) == p \in DOMAIN d /\ d[p].kind = "file"

(* fs.ensureDir (mkdir -p): fails when a path component is a file *)
EnsureDirOk(d, p) == \A q \in Prefixes(p) : q \in DOMAIN d => d[q].kind = "dir"

EnsureDir(d, p) ==
  [q \in (DOMAIN d) \cup Prefixes(p) |-> IF q \in DOMAIN d THEN d[q] ELSE DirEntry]

(* fs.writeFile: the parent must be a directory (ENOENT, ENOTDIR) and the  *)
(* path itself must not be one (EISDIR); it truncates an existing file.    *)
WriteFileOk(d, p) == Len(p) > 0 /\ IsDir(d, Parent(p)) /\ ~IsDir(d, p)

WriteFile(d, p, c) ==
  [q \in (DOMAIN d) \cup {p} |->
     IF q = p THEN FileEntry(c, IF p \in DOMAIN d THEN d[p].readable ELSE TRUE)
     ELSE d[q]]

(* getFileContent: fs.readFile, null when the read throws *)
getFileContent(d, p) ==
  IF IsFile(d, p) /\ d[p].readable
  THEN [ok |-> TRUE, text |-> d[p].content]
  ELSE [ok |-> FALSE, text |-> <<>>]

(***************************************************************************)
(* Nodes                                                                   *)
(***************************************************************************)

File(n) == [name |-> n, type |-> "file", children |-> <<>>, targetPath |-> <<>>]
Folder(n, ch) == [name |-> n, type |-> "folder", children |-> ch, targetPath |-> <<>>]

RECURSIVE CountNodes(_, _)
CountNodes(nodes, ty) ==
  IF nodes = <<>> THEN 0
  ELSE (IF Head(nodes).type = ty THEN 1 ELSE 0)
       + CountNodes(Head(nodes).children, ty) + CountNodes(Tail(nodes), ty)

(***************************************************************************)
(* smartMerger.js predicates and default content                           *)
(***************************************************************************)

sensitiveFolders ==
  {"node_modules", ".git", ".vscode", ".idea", "dist", "build", "coverage", ".next", ".nuxt"}

(* the comparison without toLowerCase *)
isSensitiveFolderCaseSensitive(folderName) == folderName \in sensitiveFolders

isSensitiveFolder(folderName) == Lower(folderName) \in sensitiveFolders

criticalFiles ==
  {"package.json", "package-lock.json", "yarn.lock", "pnpm-lock.yaml",
   "vite.config.js", "vite.config.ts", "next.config.js", "next.config.ts",
   "angular.json", "nest-cli.json", "nuxt.config.js",
   "tsconfig.json", "jsconfig.json",
   ".env", ".env.local", ".env.production",
   ".gitignore", ".gitattributes",
   "README.md", "LICENSE",
   "docker-compose.yml", "Dockerfile"}

isCriticalFile(filename) == Lower(filename) \in criticalFiles

(* basename.includes("config") *)
IncludesConfig(b) == b \in {"vite.config", "config"}

(* basename.charAt(0).toUpperCase() + basename.slice(1) *)
Capitalize(b) ==
  CASE b = "readme" -> "Readme"
    [] b = "notes" -> "Notes"
    [] OTHER -> b

getDefaultContent(filename) ==
  LET ext == ExtName(filename)
      basename == BaseNoExt(filename)
  IN CASE ext = ".js" ->
            IF IncludesConfig(basename)
            THEN <<"//", " ", "Configuration", " ", "file", "\n">>
            ELSE <<"//", " ", "JavaScript", " ", "file", "\n">>
       [] ext = ".ts" ->
            IF IncludesConfig(basename)
            THEN <<"//", " ", "TypeScript", " ", "configuration", "\n">>
            ELSE <<"//", " ", "TypeScript", " ", "file", "\n">>
       [] ext \in {".jsx", ".tsx"} ->
            <<"import", " ", "React", " ", "from", " ", "'react'", ";", "\n">>
       [] ext = ".css" -> <<"/*", " ", "Stylesheet", " ", "*/", "\n">>
       [] ext \in {".scss", ".sass"} -> <<"//", " ", "Sass", " ", "stylesheet", "\n">>
       [] ext = ".md" ->
            <<"#", " ", Capitalize(basename), "\n", "\n",
              "Content", " ", "goes", " ", "here...", "\n">>
       [] ext = ".json" ->
            IF basename = "package" THEN <<"{", "}">>
            ELSE <<"{", "\n", " ", " ", "\n", "}", "\n">>
       [] ext = ".env" -> <<"#", " ", "Environment", " ", "variables", "\n">>
       [] ext = ".gitignore" -> <<"node_modules/", "\n", "dist/", "\n", "build/", "\n">>
       [] OTHER -> <<>>

ZeroStats ==
  [created |-> [folders |-> 0, files |-> 0],
   preserved |-> [folders |-> 0, files |-> 0],
   skipped |-> [folders |-> 0, files |-> 0]]

StatsSum(s) ==
  s.created.folders + s.created.files + s.preserved.folders
  + s.preserved.files + s.skipped.folders + s.skipped.files

(***************************************************************************)
(* StructureValidator, ES-module variant (projectDetector.js 1277-1547)    *)
(***************************************************************************)

(* dedupe(nodes) of removeDuplicateStructure: one `seen` set of type:name  *)
(* keys is shared by the whole traversal; a kept node's children array is  *)
(* replaced by its filtered copy before the next sibling is looked at.     *)
RECURSIVE dedupeESM(_, _)
dedupeESM(nodes, seen) ==
  IF nodes = <<>> THEN [out |-> <<>>, kept |-> <<>>, seen |-> seen]
  ELSE LET node == Head(nodes)
           key == <<node.type, node.name>>
       IN IF key \in seen
          THEN LET rest == dedupeESM(Tail(nodes), seen)
               IN [out |-> rest.out, kept |-> <<FALSE>> \o rest.kept, seen |-> rest.seen]
          ELSE LET sub == IF Len(node.children) > 0
                          THEN dedupeESM(node.children, seen \cup {key})
                          ELSE [out |-> node.children, kept |-> <<>>, seen |-> seen \cup {key}]
                   rest == dedupeESM(Tail(nodes), sub.seen)
               IN [out |-> <<[node EXCEPT !.children = sub.out]>> \o rest.out,
                   kept |-> <<TRUE>> \o rest.kept,
                   seen |-> rest.seen]

removeDuplicateStructureESM(t) == dedupeESM(t, {})

(* adjustForExistingStructure and the adjust*Structure it dispatches to:   *)
(* the targetPath one root node gets (<<>> when it is left unset).         *)
adjustTargetESM(node, projectType, basePath, d) ==
  IF node.type # "folder" THEN node.targetPath
  ELSE CASE projectType = "frontend" /\ node.name = "src" /\ Exists(d, Join(basePath, <<"src">>))
              -> <<"src">>
         [] projectType = "backend" /\ node.name = "api" /\ Exists(d, Join(basePath, <<"api">>))
              -> <<"api">>
         [] projectType = "nestjs" /\ node.name = "src" -> <<"src">>
         [] projectType = "express" /\ node.name = "routes" -> <<"routes">>
         [] projectType = "django" /\ node.name = "apps" -> <<"apps">>
         [] projectType = "springboot" /\ node.name = "src" -> <<"src", "main", "java">>
         [] OTHER -> node.targetPath

isFrontendFolderESM(folderName) == Lower(folderName) \in {"src", "components", "public"}
isBackendFolderESM(folderName) == Lower(folderName) \in {"api", "controllers", "models", "routes"}

(* the filter of validateAgainstProjectType *)
keptByTypeESM(node, projectType) ==
  CASE projectType = "frontend" -> node.type = "folder" => isFrontendFolderESM(node.name)
    [] projectType = "backend" -> node.type = "folder" => isBackendFolderESM(node.name)
    [] OTHER -> TRUE

RECURSIVE SelectKept(_, _)
SelectKept(nodes, kept) ==
  IF nodes = <<>> THEN <<>>
  ELSE (IF Head(kept) THEN <<Head(nodes)>> ELSE <<>>) \o SelectKept(Tail(nodes), Tail(kept))

(* validateAndAdjustStructure: `adjusted` is the returned tree, `input` is *)
(* the caller's tree object after the in-place assignments to children and *)
(* targetPath.                                                             *)
validateAndAdjustStructureESM(t, projectType, basePath, d) ==
  LET r == removeDuplicateStructureESM(t)
      adj(node) == [node EXCEPT !.targetPath = adjustTargetESM(node, projectType, basePath, d)]
      cleaned == [i \in 1..Len(r.out) |-> adj(r.out[i])]
      keptIdx == [i \in 1..Len(cleaned) |-> keptByTypeESM(cleaned[i], projectType)]
      allIdx == { i \in 1..Len(t) : r.kept[i] }
      Nth(i) == Cardinality({ j \in allIdx : j <= i })
  IN [adjusted |-> SelectKept(cleaned, keptIdx),
      input |-> [i \in 1..Len(t) |-> IF r.kept[i] THEN cleaned[Nth(i)] ELSE t[i]]]

(***************************************************************************)
(* StructureValidator, CommonJS variant (projectDetector.js 542-1266)      *)
(***************************************************************************)

Children(d, p) == { q \in DOMAIN d : Len(q) = Len(p) + 1 /\ Parent(q) = p }

(* item.startsWith('.') && !item.endsWith('.js') && !item.endsWith('.ts') *)
IsHiddenItem(n) == n \in {".env", ".git", ".gitignore", ".vscode", ".idea", ".next", ".nuxt"}

RECURSIVE folderHasSignificantContent(_, _)
folderHasSignificantContent(d, folderPath) ==
  IF ~IsDir(d, folderPath) THEN FALSE
  ELSE LET items == { q \in Children(d, folderPath) : ~IsHiddenItem(Basename(q)) }
       IN IF \E q \in items : d[q].kind = "file" /\ ~d[q].readable THEN FALSE
          ELSE \E q \in items :
                 IF d[q].kind = "file" THEN Len(Trim(d[q].content)) > 0
                 ELSE folderHasSignificantContent(d, q)

AllSpace(c) == \A i \in 1..Len(c) : IsSpace(c[i])
NoNewline(c) == \A i \in 1..Len(c) : c[i] # "\n"
Inner(c) == SubSeq(c, 2, Len(c) - 1)

(* /^\{\s*\}$/ and /^\[\s*\]$/ *)
MatchesPair(c, open, close) ==
  Len(c) >= 2 /\ c[1] = open /\ c[Len(c)] = close /\ AllSpace(Inner(c))

(* /^export\s+default\s+\{\s*\}$/ *)
MatchesEmptyExport(c) ==
  /\ Len(c) >= 6
  /\ c[1] = "export"
  /\ \E i \in 3..Len(c) : \E j \in (i + 2)..Len(c) :
       /\ i > 2 /\ AllSpace(SubSeq(c, 2, i - 1))
       /\ c[i] = "default"
       /\ j > i + 1 /\ AllSpace(SubSeq(c, i + 1, j - 1))
       /\ MatchesPair(SubSeq(c, j, Len(c)), "{", "}")

(* /^module\.exports\s*=\s*\{\s*\}$/ *)
MatchesEmptyModule(c) ==
  /\ Len(c) >= 4
  /\ c[1] = "module.exports"
  /\ \E i \in 2..Len(c) : \E j \in (i + 1)..Len(c) :
       /\ AllSpace(SubSeq(c, 2, i - 1))
       /\ c[i] = "="
       /\ AllSpace(SubSeq(c, i + 1, j - 1))
       /\ MatchesPair(SubSeq(c, j, Len(c)), "{", "}")

(* the placeholderPatterns of fileHasContent, tested on trimmed content *)
IsPlaceholderCJS(t) ==
  \/ Len(t) >= 2 /\ t[1] = "/*" /\ t[Len(t)] = "*/"
  \/ Len(t) >= 1 /\ t[1] = "//" /\ NoNewline(t)
  \/ Len(t) >= 1 /\ t[1] = "#" /\ NoNewline(t)
  \/ Len(t) >= 2 /\ t[1] = "<!--" /\ t[Len(t)] = "-->"
  \/ MatchesPair(t, "{", "}")
  \/ MatchesPair(t, "[", "]")
  \/ MatchesEmptyExport(t)
  \/ MatchesEmptyModule(t)

fileHasContentCJS(d, filePath) ==
  IF ~(IsFile(d, filePath) /\ d[filePath].readable) THEN TRUE
  ELSE LET trimmed == Trim(d[filePath].content)
       IN IF trimmed = <<>> THEN FALSE ELSE ~IsPlaceholderCJS(trimmed)

universalCritical ==
  {"package.json", "package-lock.json", "yarn.lock", "pnpm-lock.yaml",
   ".env", ".env.local", ".env.production", ".env.development",
   ".gitignore", ".gitattributes", "README.md", "LICENSE",
   "tsconfig.json", "jsconfig.json"}

projectSpecificCritical(projectType) ==
  CASE projectType = "vite-frontend" -> {"vite.config.js", "vite.config.ts", "index.html"}
    [] projectType = "next-frontend" ->
         {"next.config.js", "next.config.ts", "pages/_app.js", "pages/_document.js"}
    [] projectType = "angular-frontend" -> {"angular.json", "main.ts", "polyfills.ts"}
    [] projectType = "nestjs-backend" -> {"nest-cli.json", "main.ts", "app.module.ts"}
    [] projectType = "express-backend" -> {"server.js", "app.js", "index.js"}
    [] projectType = "django-backend" -> {"manage.py", "settings.py", "urls.py", "wsgi.py"}
    [] projectType = "flask-backend" -> {"app.py", "run.py", "config.py"}
    [] projectType = "spring-backend" -> {"pom.xml", "build.gradle", "application.properties"}
    [] projectType = "laravel-backend" -> {"artisan", "composer.json", ".env.example"}
    [] projectType = "rails-backend" -> {"Gemfile", "config.ru", "application.rb"}
    [] OTHER -> {}

isCriticalFileCJS(filename, projectType) ==
  \/ Lower(filename) \in universalCritical
  \/ Lower(filename) \in projectSpecificCritical(projectType)

(* the filter of removeDuplicateStructure: a file node is dropped when the *)
(* file exists and is critical or has content                              *)
keepsNodeCJS(node, basePath, projectType, d) ==
  LET targetPath == Join(basePath, Segments(node.name))
  IN \/ node.type = "folder"
     \/ ~Exists(d, targetPath)
     \/ ~isCriticalFileCJS(node.name, projectType) /\ ~fileHasContentCJS(d, targetPath)

RECURSIVE removeDuplicateStructureCJS(_, _, _, _)
removeDuplicateStructureCJS(nodes, basePath, projectType, d) ==
  IF nodes = <<>> THEN [out |-> <<>>, input |-> <<>>]
  ELSE LET node == Head(nodes)
           existingPath == Join(basePath, Segments(node.name))
           merged ==
             IF /\ node.type = "folder"
                /\ Exists(d, existingPath)
                /\ folderHasSignificantContent(d, existingPath)
                /\ Len(node.children) > 0
             THEN [node EXCEPT !.children =
                     removeDuplicateStructureCJS(node.children, existingPath, projectType, d).out]
             ELSE node
           rest == removeDuplicateStructureCJS(Tail(nodes), basePath, projectType, d)
       IN [out |-> (IF keepsNodeCJS(merged, basePath, projectType, d) THEN <<merged>> ELSE <<>>)
                   \o rest.out,
           input |-> <<merged>> \o rest.input]

isFrontendProject(type) ==
  type \in {"vite-frontend", "next-frontend", "react-frontend", "vue-frontend",
            "angular-frontend", "svelte-frontend", "nuxt-frontend"}

srcFolders(projectType) ==
  CASE projectType = "vite-frontend" ->
         {"components", "hooks", "utils", "stores", "services", "assets"}
    [] projectType = "react-frontend" ->
         {"components", "hooks", "utils", "context", "services", "assets"}
    [] projectType = "next-frontend" -> {"components", "hooks", "utils", "lib"}
    [] projectType = "vue-frontend" ->
         {"components", "composables", "utils", "stores", "assets"}
    [] projectType = "svelte-frontend" -> {"components", "stores", "utils", "assets"}
    [] projectType = "angular-frontend" ->
         {"components", "services", "pipes", "directives", "guards"}
    [] OTHER -> {}

shouldBeInSrc(folderName, projectType) == folderName \in srcFolders(projectType)

(* adjustFrontendStructure: a copy of the node with targetPath src/<name>; *)
(* the backend adjusters need context.framework, which smartMerge leaves   *)
(* undefined when projectType is a string.                                 *)
adjustTargetCJS(node, projectType, basePath, d) ==
  IF /\ isFrontendProject(projectType)
     /\ Exists(d, Join(basePath, <<"src">>))
     /\ shouldBeInSrc(node.name, projectType)
  THEN <<"src">> \o Segments(node.name)
  ELSE node.targetPath

(* validateAgainstProjectType of this variant only prints suggestions and  *)
(* returns the tree as it got it.                                          *)
validateAndAdjustStructureCJS(t, projectType, basePath, d) ==
  LET r == removeDuplicateStructureCJS(t, basePath, projectType, d)
  IN [adjusted |-> [i \in 1..Len(r.out) |->
                      [r.out[i] EXCEPT !.targetPath =
                         adjustTargetCJS(r.out[i], projectType, basePath, d)]],
      input |-> r.input]

(***************************************************************************)
(* FileUtils.isContentMeaningful (smartMerger.js 306-332)                  *)
(***************************************************************************)

(* index of the first token equal to t at or after position i, 0 if none *)
RECURSIVE IndexFrom(_, _, _)
IndexFrom(c, t, i) ==
  IF i > Len(c) THEN 0 ELSE IF c[i] = t THEN i ELSE IndexFrom(c, t, i + 1)

(* replace(/open[\s\S]*?close/g, ''): shortest delimited runs, left to right *)
RECURSIVE StripDelimited(_, _, _)
StripDelimited(c, open, close) ==
  IF c = <<>> THEN <<>>
  ELSE IF Head(c) = open /\ IndexFrom(c, close, 2) # 0
  THEN StripDelimited(SubSeq(c, IndexFrom(c, close, 2) + 1, Len(c)), open, close)
  ELSE <<Head(c)>> \o StripDelimited(Tail(c), open, close)

(* the rest of c from its first newline on (the newline stays) *)
FromNewline(c) ==
  IF IndexFrom(c, "\n", 1) = 0 THEN <<>> ELSE SubSeq(c, IndexFrom(c, "\n", 1), Len(c))

(* replace(/\/\/.*$/gm, '') *)
RECURSIVE StripLineComments(_)
StripLineComments(c) ==
  IF c = <<>> THEN <<>>
  ELSE IF Head(c) = "//" THEN StripLineComments(FromNewline(c))
  ELSE <<Head(c)>> \o StripLineComments(Tail(c))

(* replace(/^\s*#.*$/gm, ''): at a line start, white space (newlines too)  *)
(* followed by # goes with the rest of that line                           *)
RECURSIVE StripShellComments(_, _)
StripShellComments(c, atLineStart) ==
  IF c = <<>> THEN <<>>
  ELSE IF atLineStart /\ TrimLeft(c) # <<>> /\ Head(TrimLeft(c)) = "#"
  THEN StripShellComments(FromNewline(TrimLeft(c)), FALSE)
  ELSE <<Head(c)>> \o StripShellComments(Tail(c), Head(c) = "\n")

emptyPatterns(c) ==
  \/ MatchesPair(c, "{", "}")
  \/ MatchesPair(c, "[", "]")
  \/ MatchesEmptyExport(c)
  \/ MatchesEmptyModule(c)

isContentMeaningful(content) ==
  LET trimmed == Trim(content)
      withoutComments ==
        Trim(StripDelimited(
               StripShellComments(
                 StripLineComments(StripDelimited(trimmed, "/*", "*/")), TRUE),
               "<!--", "-->"))
  IN IF trimmed = <<>> THEN FALSE
     ELSE IF withoutComments = <<>> THEN FALSE
     ELSE ~emptyPatterns(withoutComments)

(***************************************************************************)
(* Inputs: merge roots, disk layouts, trees, options                       *)
(***************************************************************************)

(* dangerousPaths of validateTargetDirectory, POSIX entries *)
dangerousPaths == { <<>>, <<"usr">>, <<"bin">>, <<"etc">>, <<"var">>, <<"sys">>, <<"proc">> }

(* validateTargetDirectory(targetDir) throws; "/" + path.sep is "//", which *)
(* no resolved path starts with, so only "/" itself matches the root entry. *)
validateTargetDirectoryThrows(dir) ==
  \E dangerous \in dangerousPaths :
    \/ dir = dangerous
    \/ dangerous # <<>> /\ IsPrefix(dangerous, dir) /\ dir # dangerous

TargetDirs == { <<"proj">>, <<"src">>, <<"etc">> }

With(d, p, e) == [q \in (DOMAIN d) \cup {p} |-> IF q = p THEN e ELSE d[q]]

BaseDisk(t) == [q \in Prefixes(t) |-> DirEntry]

Layouts ==
  {"empty", "srcCode", "emptyFiles", "unreadable", "sensitive", "mismatch", "commented"}

Layout(l, t) ==
  CASE l = "empty" -> BaseDisk(t)
    [] l = "srcCode" ->
         With(With(BaseDisk(t), t \o <<"src">>, DirEntry),
              t \o <<"src", "app.js">>, FileEntry(Code, TRUE))
    [] l = "emptyFiles" ->
         With(With(With(With(BaseDisk(t), t \o <<"README.md">>, FileEntry(Empty, TRUE)),
                        t \o <<"package.json">>, FileEntry(Empty, TRUE)),
                   t \o <<"notes.txt">>, FileEntry(Blank, TRUE)),
              t \o <<"app.js">>, FileEntry(CommentOnly, TRUE))
    [] l = "unreadable" ->
         With(With(BaseDisk(t), t \o <<"app.js">>, FileEntry(Code, FALSE)),
              t \o <<"notes.txt">>, FileEntry(Code, TRUE))
    [] l = "sensitive" ->
         With(With(With(BaseDisk(t), t \o <<"node_modules">>, DirEntry),
                   t \o <<"node_modules", "app.js">>, FileEntry(Code, TRUE)),
              t \o <<"app.js">>, FileEntry(Code, TRUE))
    [] l = "mismatch" ->
         With(With(BaseDisk(t), t \o <<"app.js">>, DirEntry),
              t \o <<"lib">>, FileEntry(Code, TRUE))
    [] l = "commented" ->
         With(With(BaseDisk(t), t \o <<"app.js">>, FileEntry(CommentThenCode, TRUE)),
              t \o <<"index.css">>, FileEntry(EmptyObject, TRUE))

Trees ==
  { << Folder("src", <<File("app.js")>>) >>,
    << Folder("proj", <<File("app.js"), Folder("lib", <<>>)>>) >>,
    << Folder("node_modules", <<File("app.js")>>), File("app.js") >>,
    << Folder("lib", <<Folder("Dist", <<File("app.js")>>)>>) >>,
    << File("README.md"), File("package.json") >>,
    << File("notes.txt") >>,
    << Folder("src", <<File("app.js")>>), Folder("lib", <<File("app.js")>>) >>,
    << Folder("dist/assets", <<>>) >>,
    << Folder("src", <<Folder("src", <<File("app.js")>>)>>) >>,
    << File("app.js"), File("notes.txt") >>,
    << Folder("components", <<File("app.js")>>) >>,
    << Folder("lib", <<File("notes.txt")>>), File("index.css") >> }

ProjectTypes == {"unknown", "frontend", "nestjs", "vite-frontend"}

Options ==
  [dirsOnly : BOOLEAN, skipCritical : BOOLEAN, preserveContent : BOOLEAN,
   projectType : ProjectTypes]

Validators == {"esm", "cjs"}

(* parseFolderTree has not been called *)
ParseIdle ==
  /\ input = <<>> /\ lines = <<>> /\ root = <<>> /\ stack = <<>>
  /\ plog = <<>> /\ ppc = "idle"

ZeroGenStats == [foldersCreated |-> 0, filesCreated |-> 0, preserved |-> 0, errors |-> <<>>]

(* no TemplateGenerator has been constructed *)
GenIdle ==
  /\ genOptions = [preserveExisting |-> TRUE, generateBoilerplate |-> FALSE]
  /\ genStats = ZeroGenStats

(* no readline interface has been created *)
RlIdle ==
  [state |-> "idle", pending |-> <<>>, received |-> <<>>, structure |-> <<>>,
   emptyLineCount |-> 0]

(* no setup command has been called; the process is in the target directory *)
SetupIdle == setup = [cmd |-> "none"] /\ rl = RlIdle /\ cwd = targetDir

(***************************************************************************)
(* smartMerge as a state machine                                           *)
(***************************************************************************)

Init ==
  /\ targetDir \in TargetDirs
  /\ \E l \in Layouts : disk = Layout(l, targetDir)
  /\ disk0 = disk
  /\ tree \in Trees
  /\ tree0 = tree
  /\ opts \in Options
  /\ validator \in Validators
  /\ pc = "idle"
  /\ work = <<>>
  /\ stats = ZeroStats
  /\ log = <<>>
  /\ runs = 0
  /\ results = <<>>
  /\ ParseIdle /\ GenIdle /\ SetupIdle

(* StructureValidator.validateAndAdjustStructure of the linked variant; *)
(* smartMerge passes {type, isNested}, so context.basePath is targetDir. *)
validateAndAdjustStructure(t, projectType, dir, d) ==
  IF validator = "esm"
  THEN validateAndAdjustStructureESM(t, projectType, dir, d)
  ELSE validateAndAdjustStructureCJS(t, projectType, dir, d)

(* the pending part of the recursive processMerge calls: one frame per     *)
(* active for-loop, innermost last; finished loops are popped.             *)
RECURSIVE Unwind(_)
Unwind(w) ==
  IF w # <<>> /\ w[Len(w)].nodes = <<>> THEN Unwind(SubSeq(w, 1, Len(w) - 1)) ELSE w

(* the last node of the innermost loop, not the next one *)
CurNodeLast == work[Len(work)].nodes[Len(work[Len(work)].nodes)]

CurNode == Head(work[Len(work)].nodes)
CurDir == work[Len(work)].dir
Advance == [work EXCEPT ![Len(work)].nodes = Tail(@)]

(* the path resolution at the head of processMerge's loop *)
FinalPath(node, dir) ==
  IF node.targetPath # <<>> THEN Join(dir, node.targetPath)
  ELSE IF Basename(dir) = node.name /\ node.type = "folder" THEN dir
  ELSE Join(dir, Segments(node.name))

Entry(node, path, outcome) ==
  [name |-> node.name, type |-> node.type, path |-> path, outcome |-> outcome]

(* smartMerge up to the call of processMerge *)
SmartMerge ==
  /\ pc \in {"idle", "done"}
  /\ runs < MaxRuns
  /\ LET r == validateAndAdjustStructure(tree, opts.projectType, targetDir, disk)
     IN /\ tree' = r.input
        /\ work' = Unwind(<< [nodes |-> r.adjusted, dir |-> targetDir] >>)
  /\ stats' = ZeroStats
  /\ log' = <<>>
  /\ disk0' = disk
  /\ runs' = runs + 1
  /\ pc' = "walking"
  /\ UNCHANGED <<disk, tree0, targetDir, opts, validator, results>>
  /\ UNCHANGED <<parseVars, genVars, setupVars>>

(* one iteration of processMerge on a folder node: handleFolder *)
HandleFolder ==
  /\ pc = "walking" /\ work # <<>> /\ CurNode.type = "folder"
  /\ LET node == CurNode
         targetPath == FinalPath(node, CurDir)
         exists == Exists(disk, targetPath)
         descend == IF Len(node.children) > 0
                    THEN Unwind(Append(Advance, [nodes |-> node.children, dir |-> targetPath]))
                    ELSE Unwind(Advance)
     IN IF isSensitiveFolder(node.name)
        THEN /\ stats' = IF exists
                         THEN [stats EXCEPT !.preserved.folders = @ + 1]
                         ELSE [stats EXCEPT !.skipped.folders = @ + 1]
             /\ log' = Append(log, Entry(node, targetPath, IF exists THEN "preserved" ELSE "skipped"))
             /\ work' = Unwind(Advance)
             /\ UNCHANGED <<disk, pc>>
        ELSE IF ~exists /\ ~EnsureDirOk(disk, targetPath)
        THEN /\ pc' = "rejected"
             /\ log' = Append(log, Entry(node, targetPath, "error"))
             /\ UNCHANGED <<disk, stats, work>>
        ELSE /\ disk' = IF exists THEN disk ELSE EnsureDir(disk, targetPath)
             /\ stats' = IF exists
                         THEN [stats EXCEPT !.preserved.folders = @ + 1]
                         ELSE [stats EXCEPT !.created.folders = @ + 1]
             /\ log' = Append(log, Entry(node, targetPath, IF exists THEN "preserved" ELSE "created"))
             /\ work' = descend
             /\ UNCHANGED pc
  /\ UNCHANGED <<disk0, tree, tree0, targetDir, opts, validator, runs, results>>
  /\ UNCHANGED <<parseVars, genVars, setupVars>>

(* hasContent of handleFile: existingContent && existingContent.trim().length > 0 *)
hasContent(existingContent) ==
  existingContent.ok /\ existingContent.text # <<>> /\ Len(Trim(existingContent.text)) > 0

(* one iteration of processMerge on a file node: handleFile *)
HandleFile ==
  /\ pc = "walking" /\ work # <<>> /\ CurNode.type # "folder"
  /\ LET node == CurNode
         targetPath == FinalPath(node, CurDir)
         exists == Exists(disk, targetPath)
         existingContent == getFileContent(disk, targetPath)
         write == /\ IF WriteFileOk(disk, targetPath)
                     THEN /\ disk' = WriteFile(disk, targetPath, getDefaultContent(node.name))
                          /\ stats' = [stats EXCEPT !.created.files = @ + 1]
                          /\ log' = Append(log, Entry(node, targetPath,
                                                      IF exists THEN "updated" ELSE "created"))
                          /\ work' = Unwind(Advance)
                          /\ UNCHANGED pc
                     ELSE /\ pc' = "rejected"
                          /\ log' = Append(log, Entry(node, targetPath, "error"))
                          /\ UNCHANGED <<disk, stats, work>>
         preserve == /\ stats' = [stats EXCEPT !.preserved.files = @ + 1]
                     /\ log' = Append(log, Entry(node, targetPath, "preserved"))
                     /\ work' = Unwind(Advance)
                     /\ UNCHANGED <<disk, pc>>
     IN IF opts.dirsOnly
        THEN /\ log' = Append(log, Entry(node, targetPath, "none"))
             /\ work' = Unwind(Advance)
             /\ UNCHANGED <<disk, stats, pc>>
        ELSE IF opts.skipCritical /\ exists /\ isCriticalFile(node.name) THEN preserve
        ELSE IF exists
        THEN IF opts.preserveContent /\ hasContent(existingContent) THEN preserve
             ELSE IF ~hasContent(existingContent) THEN write
             ELSE preserve
        ELSE write
  /\ UNCHANGED <<disk0, tree, tree0, targetDir, opts, validator, runs, results>>
  /\ UNCHANGED <<parseVars, genVars, setupVars>>

(* processMerge has returned: displayMergeReport and return stats *)
Return ==
  /\ pc = "walking" /\ work = <<>>
  /\ pc' = "done"
  /\ results' = Append(results, stats)
  /\ UNCHANGED <<disk, disk0, tree, tree0, targetDir, opts, validator, work, stats, log, runs>>
  /\ UNCHANGED <<parseVars, genVars, setupVars>>

Next == SmartMerge \/ HandleFolder \/ HandleFile \/ Return

Spec == Init /\ [][Next]_vars

(***************************************************************************)
(* parseFolderTree (folderTreeParser.js) as a state machine                *)
(*                                                                         *)
(* The input text is the sequence of its lines (split("\n")), a line is a  *)
(* sequence of tokens: white space, tree glyphs, emojis, annotation        *)
(* starters, a carriage return, and labels, each label one token.          *)
(***************************************************************************)

MaxLines == 4

emojis == {"folder-emoji", "file-emoji"}
(* the tree glyphs U+2502, U+251C, U+2514 and U+2500 as tokens *)
VBar == "<U+2502>"
Tee == "<U+251C>"
Ell == "<U+2514>"
Dash == "<U+2500>"

IsIndentChar(t) == IsSpace(t) \/ t = VBar
IsTreeChar(t) == IsSpace(t) \/ t \in {VBar, Tee, Ell, Dash}

(* line.replace(/\r$/, "") then the removal of the emojis *)
StripCR(l) == IF l # <<>> /\ l[Len(l)] = "\r" THEN SubSeq(l, 1, Len(l) - 1) ELSE l

StripEmojis(l) == SelectSeq(l, LAMBDA t : t \notin emojis)

(* the lines the for loop runs over: .map .map .filter(Boolean) *)
NormalizeLines(text) ==
  SelectSeq([i \in 1..Len(text) |-> StripEmojis(StripCR(text[i]))], LAMBDA l : l # <<>>)

(* twice the indentLevel: the length of the leading run of white space and *)
(* U+2502, each U+2502 counted as two characters                           *)
RECURSIVE IndentLength(_)
IndentLength(l) ==
  IF l = <<>> \/ ~IsIndentChar(Head(l)) THEN 0
  ELSE (IF Head(l) = VBar THEN 2 ELSE 1) + IndentLength(Tail(l))

(* rawLine.replace(/^[\s<U+2502><U+251C><U+2514><U+2500>]+/, "") *)
RECURSIVE StripTreeSymbols(_)
StripTreeSymbols(l) ==
  IF l # <<>> /\ IsTreeChar(Head(l)) THEN StripTreeSymbols(Tail(l)) ELSE l

(* the first position where (#|\/\/|--|\(.*\)) matches, 0 if none *)
RECURSIVE AnnotationStart(_, _)
AnnotationStart(c, i) ==
  IF i > Len(c) THEN 0
  ELSE IF \/ c[i] \in {"#", "//", "--"}
          \/ c[i] = "(" /\ IndexFrom(c, ")", i + 1) # 0
       THEN i
       ELSE AnnotationStart(c, i + 1)

(* clean.replace(/\s*(#|\/\/|--|\(.*\)).*$/, "").trim() *)
StripAnnotation(c) ==
  IF AnnotationStart(c, 1) = 0 THEN Trim(c)
  ELSE Trim(SubSeq(c, 1, AnnotationStart(c, 1) - 1))

(* steps 2 and 3 of the loop body: the label tokens left of a line *)
CleanLine(rawLine) ==
  LET clean == Trim(StripTreeSymbols(rawLine))
  IN IF clean = <<>> THEN <<>> ELSE StripAnnotation(clean)

EndsWithSlash(s) == s \in {"src/", "dist/assets/"}

(* clean.replace(/\/$/, "") *)
StripSlash(s) ==
  CASE s = "src/" -> "src"
    [] s = "dist/assets/" -> "dist/assets"
    [] OTHER -> s

(* clean.includes(".") *)
IncludesDot(s) == ExtName(s) # "" \/ s \in {".env", ".gitignore", ".git", ".Git"}

knownFolders ==
  {"src", "public", "dist", "build", "assets", "components", "pages",
   "utils", "lib", "styles", "images", "fonts", "scripts", "config",
   "tests", "test", "__tests__", "docs", "documentation", "examples",
   "node_modules", ".git", ".vscode", "coverage", "cypress", "e2e"}

(* the list looked up without toLowerCase *)
isKnownFolderCaseSensitive(name) == name \in knownFolders

isKnownFolder(name) == Lower(name) \in knownFolders

(* step 4; a label is the one token left of the line *)
isFolderLabel(clean) ==
  EndsWithSlash(clean) \/ ~IncludesDot(clean) \/ isKnownFolder(clean)

RECURSIVE ChildrenAt(_, _)
ChildrenAt(nodes, path) ==
  IF path = <<>> THEN nodes ELSE ChildrenAt(nodes[Head(path)].children, Tail(path))

(* parent.children.push(node) for the parent reached by path *)
RECURSIVE AttachAt(_, _, _)
AttachAt(nodes, path, node) ==
  IF path = <<>> THEN Append(nodes, node)
  ELSE [nodes EXCEPT ![Head(path)].children = AttachAt(@, Tail(path), node)]

(* a root frame that a top-level line pops *)
RootFrameLevelZero == [level |-> 0, path |-> <<>>, type |-> "folder", name |-> "<root>"]

(* the frame of the root array; level holds twice the source's level *)
RootFrame == [level |-> -2, path |-> <<>>, type |-> "folder", name |-> "<root>"]

(* while (stack.length && stack[stack.length - 1].level >= indentLevel) pop *)
(* the pop loop with > for >=: a frame at the line's own level is kept *)
RECURSIVE PopFramesStrict(_, _)
PopFramesStrict(st, level) ==
  IF st # <<>> /\ st[Len(st)].level > level
  THEN PopFramesStrict(SubSeq(st, 1, Len(st) - 1), level)
  ELSE st

RECURSIVE PopFrames(_, _)
PopFrames(st, level) ==
  IF st # <<>> /\ st[Len(st)].level >= level
  THEN PopFrames(SubSeq(st, 1, Len(st) - 1), level)
  ELSE st

(* the lines an input text is made of *)
ParserLines ==
  { <<"src/">>,
    <<" ", " ", "app.js">>,
    <<" ", " ", " ", " ", "index.css">>,
    <<VBar, " ", " ", Tee, Dash, Dash, " ", "lib">>,
    <<"#", " ", "note">>,
    <<Tee, Dash, Dash, " ", "folder-emoji", "README.md", " ", "#", " ", "docs", "\r">>,
    <<VBar>>,
    <<"folder-emoji">>,
    <<" ", " ", "LICENSE">>,
    <<".Git">> }

Texts == UNION { [1..n -> ParserLines] : n \in 0..MaxLines }

(* no merge is running *)
MergeIdle ==
  /\ targetDir = <<"proj">>
  /\ disk = BaseDisk(targetDir) /\ disk0 = disk
  /\ tree = <<>> /\ tree0 = <<>>
  /\ opts = [dirsOnly |-> FALSE, skipCritical |-> TRUE, preserveContent |-> TRUE,
             projectType |-> "unknown"]
  /\ validator = "esm"
  /\ pc = "idle" /\ work = <<>> /\ stats = ZeroStats /\ log = <<>>
  /\ runs = 0 /\ results = <<>>

ParseInit == MergeIdle /\ ParseIdle /\ GenIdle /\ SetupIdle

LineEntry(rawLine, level, name, type, outcome, parent) ==
  [raw |-> rawLine, level |-> level, name |-> name, type |-> type,
   outcome |-> outcome, parent |-> parent]

(* parseFolderTree(text) up to the for loop *)
ParseStart ==
  /\ ppc = "idle"
  /\ \E text \in Texts :
       /\ input' = text
       /\ lines' = NormalizeLines(text)
  /\ root' = <<>>
  /\ stack' = <<RootFrame>>
  /\ plog' = <<>>
  /\ ppc' = "loop"
  /\ UNCHANGED <<mergeVars, genVars, setupVars>>

(* the body of the for loop on one line: a line without a label is        *)
(* skipped, a line without a folder parent is skipped with a warning, any  *)
(* other line is attached, after the frames at its level or deeper were    *)
(* popped. The result holds the new root, the new stack and the line's     *)
(* entry in the history.                                                   *)
ParseStep(rawLine, rootNow, stackNow) ==
  LET indentLevel == IndentLength(rawLine)
      clean == CleanLine(rawLine)
      label == IF clean = <<>> THEN "" ELSE Head(clean)
      isFolder == isFolderLabel(label)
      node == IF isFolder THEN Folder(StripSlash(label), <<>>) ELSE File(StripSlash(label))
      popped == PopFrames(stackNow, indentLevel)
      noParent == popped = <<>> \/ popped[Len(popped)].type = "file"
      parentPath == IF noParent THEN <<>> ELSE popped[Len(popped)].path
      frame == [level |-> indentLevel,
                path |-> Append(parentPath, Len(ChildrenAt(rootNow, parentPath)) + 1),
                type |-> "folder", name |-> node.name]
  IN IF clean = <<>>
     THEN [root |-> rootNow, stack |-> stackNow,
           entry |-> LineEntry(rawLine, indentLevel, "", "none", "skipped", <<>>)]
     ELSE IF noParent
     THEN [root |-> rootNow, stack |-> popped,
           entry |-> LineEntry(rawLine, indentLevel, node.name, node.type, "warned", <<>>)]
     ELSE [root |-> AttachAt(rootNow, parentPath, node),
           stack |-> IF isFolder THEN Append(popped, frame) ELSE popped,
           entry |-> LineEntry(rawLine, indentLevel, node.name, node.type, "attached",
                               parentPath)]

(* one iteration of the for loop *)
ParseLine ==
  /\ ppc = "loop" /\ lines # <<>>
  /\ root' = ParseStep(Head(lines), root, stack).root
  /\ stack' = ParseStep(Head(lines), root, stack).stack
  /\ plog' = Append(plog, ParseStep(Head(lines), root, stack).entry)
  /\ lines' = Tail(lines)
  /\ UNCHANGED <<input, ppc>>
  /\ UNCHANGED <<mergeVars, genVars, setupVars>>

(* return root *)
ParseReturn ==
  /\ ppc = "loop" /\ lines = <<>>
  /\ ppc' = "done"
  /\ UNCHANGED <<input, lines, root, stack, plog>>
  /\ UNCHANGED <<mergeVars, genVars, setupVars>>

ParseNext == ParseStart \/ ParseLine \/ ParseReturn

SpecParse == ParseInit /\ [][ParseNext]_vars

(***************************************************************************)
(* TemplateGenerator (templateGenerator.js) as a state machine             *)
(***************************************************************************)

(* a token of c at the start of a line equals t: /^t.*$/m *)
SomeLineStartsWith(c, t) ==
  \E i \in 1..Len(c) : c[i] = t /\ (i = 1 \/ c[i - 1] = "\n")

(* the emptyPatterns of TemplateGenerator.fileHasContent, on trimmed text *)
IsEmptyPatternGen(t) ==
  \/ Len(t) >= 2 /\ t[1] = "/*" /\ t[Len(t)] = "*/"
  \/ SomeLineStartsWith(t, "//")
  \/ SomeLineStartsWith(t, "#")
  \/ Len(t) >= 2 /\ t[1] = "<!--" /\ t[Len(t)] = "-->"
  \/ MatchesPair(t, "{", "}")
  \/ MatchesPair(t, "[", "]")

(* TemplateGenerator.fileHasContent: true when the read throws *)
fileHasContentGen(d, filePath) ==
  IF ~(IsFile(d, filePath) /\ d[filePath].readable) THEN TRUE
  ELSE LET trimmed == Trim(d[filePath].content)
       IN IF trimmed = <<>> THEN FALSE ELSE ~IsEmptyPatternGen(trimmed)

(* path.basename(filename, ext), case kept *)
BaseKeepCase(s) == IF s = "README.md" THEN "README" ELSE BaseNoExt(s)

(* TemplateGenerator.getFileContent and the boilerplate generators, for the *)
(* extensions of the universe                                               *)
getFileContentGen(node, options) ==
  LET ext == ExtName(node.name)
      basename == BaseKeepCase(node.name)
  IN IF ~options.generateBoilerplate THEN <<>>
     ELSE CASE ext = ".js" ->
                 IF IncludesConfig(basename)
                 THEN <<"//", " ", "Configuration", " ", "file", "\n",
                        "export", " ", "default", " ", "{", "\n",
                        "//", " ", "Add", " ", "your", " ", "config", " ", "here", "\n",
                        "}", ";", "\n">>
                 ELSE <<"//", " ", "JavaScript", " ", "file", "\n">>
            [] ext = ".css" ->
                 <<"/*", " ", Capitalize(basename), " ", "Styles", " ", "*/", "\n", "\n",
                   ".", Lower(basename), " ", "{", "\n",
                   "/*", " ", "Add", " ", "your", " ", "styles", " ", "here", " ", "*/", "\n",
                   "}", "\n">>
            [] ext = ".md" ->
                 <<"#", " ", Capitalize(basename), "\n", "\n",
                   "Add", " ", "your", " ", "content", " ", "here...", "\n", "\n",
                   "##", " ", "Getting", " ", "Started", "\n", "\n",
                   "Instructions", " ", "go", " ", "here...", "\n">>
            [] ext = ".json" ->
                 IF basename = "package" THEN <<"{", "}">>
                 ELSE <<"{", "\n", " ", " ", "\n", "}", "\n">>
            [] OTHER -> <<>>

GenOptions == [preserveExisting : BOOLEAN, generateBoilerplate : BOOLEAN]

GenInit ==
  /\ targetDir \in TargetDirs
  /\ \E l \in Layouts : disk = Layout(l, targetDir)
  /\ disk0 = disk
  /\ tree \in Trees
  /\ tree0 = tree
  /\ opts = [dirsOnly |-> FALSE, skipCritical |-> TRUE, preserveContent |-> TRUE,
             projectType |-> "unknown"]
  /\ validator = "esm"
  /\ pc = "idle" /\ work = <<>> /\ stats = ZeroStats /\ log = <<>>
  /\ runs = 0 /\ results = <<>>
  /\ genOptions \in GenOptions
  /\ genStats = ZeroGenStats
  /\ ParseIdle /\ SetupIdle

genFrame == <<disk0, tree, tree0, targetDir, opts, validator, stats, runs, results,
              genOptions, parseVars, setupVars>>

(* generateFromStructure up to the call of processNodes *)
GenerateFromStructure ==
  /\ pc = "idle"
  /\ genStats' = ZeroGenStats
  /\ work' = Unwind(<< [nodes |-> tree, dir |-> targetDir] >>)
  /\ log' = <<>>
  /\ pc' = "walking"
  /\ UNCHANGED <<disk, genFrame>>

(* one iteration of processNodes on a folder node: processNode, handleFolder; *)
(* a throw of ensureDir is caught by the loop and recorded                   *)
GenHandleFolder ==
  /\ pc = "walking" /\ work # <<>> /\ CurNode.type = "folder"
  /\ LET node == CurNode
         targetPath == Join(CurDir, Segments(node.name))
         exists == Exists(disk, targetPath)
     IN IF ~exists /\ ~EnsureDirOk(disk, targetPath)
        THEN /\ genStats' = [genStats EXCEPT !.errors = Append(@, node.name)]
             /\ log' = Append(log, Entry(node, targetPath, "error"))
             /\ work' = Unwind(Advance)
             /\ UNCHANGED disk
        ELSE /\ disk' = IF exists THEN disk ELSE EnsureDir(disk, targetPath)
             /\ genStats' = IF exists
                            THEN [genStats EXCEPT !.preserved = @ + 1]
                            ELSE [genStats EXCEPT !.foldersCreated = @ + 1]
             /\ log' = Append(log, Entry(node, targetPath,
                                         IF exists THEN "preserved" ELSE "created"))
             /\ work' = IF Len(node.children) > 0
                        THEN Unwind(Append(Advance, [nodes |-> node.children, dir |-> targetPath]))
                        ELSE Unwind(Advance)
  /\ UNCHANGED <<pc, genFrame>>

(* one iteration of processNodes on a file node: processNode, handleFile *)
GenHandleFile ==
  /\ pc = "walking" /\ work # <<>> /\ CurNode.type # "folder"
  /\ LET node == CurNode
         targetPath == Join(CurDir, Segments(node.name))
         exists == Exists(disk, targetPath)
     IN IF exists /\ genOptions.preserveExisting /\ fileHasContentGen(disk, targetPath)
        THEN /\ genStats' = [genStats EXCEPT !.preserved = @ + 1]
             /\ log' = Append(log, Entry(node, targetPath, "preserved"))
             /\ UNCHANGED disk
        ELSE IF WriteFileOk(disk, targetPath)
        THEN /\ disk' = WriteFile(disk, targetPath, getFileContentGen(node, genOptions))
             /\ genStats' = [genStats EXCEPT !.filesCreated = @ + 1]
             /\ log' = Append(log, Entry(node, targetPath,
                                         IF exists THEN "updated" ELSE "created"))
        ELSE /\ genStats' = [genStats EXCEPT !.errors = Append(@, node.name)]
             /\ log' = Append(log, Entry(node, targetPath, "error"))
             /\ UNCHANGED disk
  /\ work' = Unwind(Advance)
  /\ UNCHANGED <<pc, genFrame>>

(* processNodes has returned: displayResults and return stats *)
GenReturn ==
  /\ pc = "walking" /\ work = <<>>
  /\ pc' = "done"
  /\ UNCHANGED <<disk, work, log, genStats, genFrame>>

GenNext == GenerateFromStructure \/ GenHandleFolder \/ GenHandleFile \/ GenReturn

SpecGen == GenInit /\ [][GenNext]_vars

(***************************************************************************)
(* The project setup commands: setupBackend (backend.js, the variant with  *)
(* a level) and setupFrontend (frontend.js). targetDir is process.cwd().   *)
(***************************************************************************)

(* outputFileSync: creates the missing parent directories, then writes *)
OutputFileOk(d, p) == EnsureDirOk(d, Parent(p)) /\ ~IsDir(d, p)
OutputFile(d, p, c) == WriteFile(EnsureDir(d, Parent(p)), p, c)

(* createFile(dir, filename, content) of utils/fileSystem.js *)
createFileOk(d, dir, filename) == EnsureDirOk(d, dir) /\ OutputFileOk(d, Append(dir, filename))
createFile(d, dir, filename, content) == OutputFile(EnsureDir(d, dir), Append(dir, filename), content)

(* fs.removeSync(p): p and everything below it *)
Remove(d, p) == [q \in { r \in DOMAIN d : ~IsPrefix(p, r) } |-> d[q]]

(* the content setupBackend writes to a file: one token per template *)
Template(level, filename) == <<"template", level, filename>>

(* `backend-${level.toLowerCase()}` *)
BackendDefaultName(level) ==
  CASE level = "Beginner" -> "backend-beginner"
    [] level = "Intermediate" -> "backend-intermediate"
    [] OTHER -> "backend-nodejs"

(* the folders setupBackend ensures right after the project directory *)
BackendFolders(level) ==
  CASE level = "Beginner" -> << <<"src", "db">> >>
    [] level = "Intermediate" ->
         << <<"src", "db">>, <<"src", "routes">>, <<"src", "models">>,
            <<"src", "controllers">>, <<"src", "middleware">> >>
    [] OTHER -> <<>>

(* its createFile calls, in order: directory below the project, file name *)
BackendFiles(level) ==
  CASE level = "Beginner" ->
         << [dir |-> <<"src">>, name |-> "app.js"],
            [dir |-> <<"src", "db">>, name |-> "db.js"],
            [dir |-> <<>>, name |-> "server.js"],
            [dir |-> <<>>, name |-> ".env"],
            [dir |-> <<>>, name |-> ".gitignore"] >>
    [] level = "Intermediate" ->
         << [dir |-> <<"src">>, name |-> "app.js"],
            [dir |-> <<"src", "db">>, name |-> "db.js"],
            [dir |-> <<"src", "models">>, name |-> "User.js"],
            [dir |-> <<"src", "controllers">>, name |-> "userController.js"],
            [dir |-> <<"src", "routes">>, name |-> "userRoutes.js"],
            [dir |-> <<"src", "middleware">>, name |-> "logger.js"],
            [dir |-> <<>>, name |-> "server.js"],
            [dir |-> <<>>, name |-> ".env"],
            [dir |-> <<>>, name |-> ".gitignore"] >>
    [] OTHER -> <<>>

Levels == {"Beginner", "Intermediate", "nodejs"}
ProjectNames == {"app", "web", "null"}

SetupLayouts == {"absent", "emptyDir", "existing", "fileInWay", "monorepo"}

SetupLayout(l, base) ==
  LET app == Append(base, "app")
  IN CASE l = "absent" -> BaseDisk(base)
       [] l = "emptyDir" -> With(BaseDisk(base), app, DirEntry)
       [] l = "existing" ->
            With(With(With(With(With(BaseDisk(base), app, DirEntry),
                                Append(app, "server.js"), FileEntry(Code, TRUE)),
                           Append(app, ".env"), FileEntry(<<"SECRET=1">>, TRUE)),
                      Append(app, "package.json"), FileEntry(<<"{", "\"name\"", "}">>, TRUE)),
                 Append(app, "notes.txt"), FileEntry(Code, TRUE))
       [] l = "fileInWay" ->
            With(With(BaseDisk(base), app, DirEntry), Append(app, "src"), FileEntry(Code, TRUE))
       [] l = "monorepo" ->
            With(With(With(With(BaseDisk(base), Append(base, "fullstack-app"), DirEntry),
                           Join(base, <<"fullstack-app", "client">>), DirEntry),
                      Join(base, <<"fullstack-app", "frontend">>), DirEntry),
                 Join(base, <<"fullstack-app", "frontend", "package.json">>),
                 FileEntry(<<"{", "\"name\"", "}">>, TRUE))

SetupInit ==
  /\ targetDir = <<"proj">>
  /\ \E l \in SetupLayouts : disk = SetupLayout(l, targetDir)
  /\ disk0 = disk
  /\ tree = <<>> /\ tree0 = <<>>
  /\ opts = [dirsOnly |-> FALSE, skipCritical |-> TRUE, preserveContent |-> TRUE,
             projectType |-> "unknown"]
  /\ validator = "esm"
  /\ pc = "idle" /\ work = <<>> /\ stats = ZeroStats /\ log = <<>>
  /\ runs = 0 /\ results = <<>>
  /\ ParseIdle /\ GenIdle /\ SetupIdle

setupFrame == <<disk0, tree, tree0, targetDir, opts, validator, work, stats, runs, results,
                parseVars, genVars, rl, cwd>>

ProjectPath == Append(targetDir, setup.projectName)

(* fs.ensureDir on each path in turn, up to the first one that throws *)
RECURSIVE EnsureAll(_, _)
EnsureAll(d, paths) ==
  IF paths = <<>> THEN [disk |-> d, ok |-> TRUE]
  ELSE IF ~EnsureDirOk(d, Head(paths)) THEN [disk |-> d, ok |-> FALSE]
  ELSE EnsureAll(EnsureDir(d, Head(paths)), Tail(paths))

(* setupBackend(level, projectName) up to the first createFile: the project *)
(* directory and the level's folders are ensured, no existence check; a     *)
(* throw is caught and logged, the call returns                             *)
SetupBackend ==
  /\ pc = "idle"
  /\ \E level \in Levels, name \in ProjectNames :
       LET finalProjectName == IF name = "null" THEN BackendDefaultName(level) ELSE name
           projectPath == Append(targetDir, finalProjectName)
           folders == BackendFolders(level)
           r == EnsureAll(disk, <<projectPath>>
                                \o [i \in 1..Len(folders) |-> Join(projectPath, folders[i])])
       IN /\ disk' = r.disk
          /\ setup' = [cmd |-> "backend", level |-> level, projectName |-> finalProjectName,
                       todo |-> IF r.ok THEN BackendFiles(level) ELSE <<>>]
          /\ pc' = IF r.ok THEN "backend-files" ELSE "done"
          /\ log' = IF r.ok THEN <<>> ELSE <<"error">>
  /\ UNCHANGED setupFrame

(* the next createFile call of setupBackend *)
BackendCreateFile ==
  /\ pc = "backend-files" /\ setup.todo # <<>>
  /\ LET f == Head(setup.todo)
         dir == Join(ProjectPath, f.dir)
     IN IF createFileOk(disk, dir, f.name)
        THEN /\ disk' = createFile(disk, dir, f.name, Template(setup.level, f.name))
             /\ setup' = [setup EXCEPT !.todo = Tail(@)]
             /\ log' = Append(log, f.name)
             /\ UNCHANGED pc
        ELSE /\ pc' = "done"
             /\ log' = Append(log, "error")
             /\ UNCHANGED <<disk, setup>>
  /\ UNCHANGED setupFrame

(* what npm leaves in package.json: the file it found, or a fresh one, with *)
(* the dependencies added                                                   *)
NpmPackageJson(d, p) ==
  (IF IsFile(d, p) THEN d[p].content ELSE <<"{", "\"name\"", "}">>) \o <<"dependencies">>

(* execSync("npm init -y && npm install ..."), then the scripts are written *)
(* with readJson / writeJson; npm may fail, which throws                    *)
BackendInstall ==
  /\ pc = "backend-files" /\ setup.todo = <<>>
  /\ LET pkgPath == Append(ProjectPath, "package.json")
     IN \E npmOk \in BOOLEAN :
          IF npmOk /\ ~IsDir(disk, pkgPath)
          THEN /\ disk' = WriteFile(EnsureDir(disk, Append(ProjectPath, "node_modules")), pkgPath,
                                    NpmPackageJson(disk, pkgPath) \o <<"scripts">>)
               /\ log' = Append(log, "complete")
          ELSE /\ log' = Append(log, "error")
               /\ UNCHANGED disk
  /\ pc' = "done"
  /\ UNCHANGED <<setup, setupFrame>>

FrontendNames == {"app", "web"}

ViteConfig == <<"import react", "\n", "plugins: [", "react()", "]">>

(* what `npm create vite@latest <name> -- --template react` leaves *)
Scaffold(d, p) ==
  LET src == Append(p, "src")
      d1 == EnsureDir(d, src)
      d2 == WriteFile(d1, Append(p, "package.json"), <<"{", "\"name\"", "}">>)
      d3 == WriteFile(d2, Append(p, "vite.config.js"), ViteConfig)
      d4 == WriteFile(d3, Append(src, "App.css"), <<"vite", "App.css">>)
      d5 == WriteFile(d4, Append(src, "index.css"), <<"vite", "index.css">>)
  IN WriteFile(d5, Append(src, "App.jsx"), <<"vite", "App.jsx">>)

InsertAfter(c, i, ins) == SubSeq(c, 1, i) \o ins \o SubSeq(c, i + 1, Len(c))

(* step 5: the two replacements on vite.config.js *)
UpdateViteConfig(c) ==
  LET i == IndexFrom(c, "import react", 1)
      c1 == IF IndexFrom(c, "import tailwindcss", 1) = 0 /\ i # 0 /\ i < Len(c) /\ c[i + 1] = "\n"
            THEN InsertAfter(c, i + 1, <<"import tailwindcss", "\n">>)
            ELSE c
      j == IndexFrom(c1, "plugins: [", 1)
  IN IF IndexFrom(c1, "tailwindcss()", 1) = 0 /\ j # 0
     THEN InsertAfter(c1, j, <<"\n", "tailwindcss()", ",">>)
     ELSE c1

(* setupFrontend(projectName) up to the scaffolding: the existence check *)
SetupFrontend ==
  /\ pc = "idle"
  /\ \E name \in FrontendNames :
       /\ setup' = [cmd |-> "frontend", level |-> "react", projectName |-> name, todo |-> <<>>]
       /\ IF Exists(disk, Append(targetDir, name))
          THEN pc' = "done" /\ log' = <<"exists">>
          ELSE pc' = "frontend-create" /\ log' = <<>>
  /\ UNCHANGED <<disk, setupFrame>>

(* steps 1 to 3: npm create vite and the two npm install; each may throw, *)
(* with the project directory created or not                              *)
FrontendCreate ==
  /\ pc = "frontend-create"
  /\ \E outcome \in {"ok", "failed-early", "failed-late"} :
       /\ disk' = CASE outcome = "ok" ->
                         EnsureDir(Scaffold(disk, ProjectPath), Append(ProjectPath, "node_modules"))
                    [] outcome = "failed-late" -> Scaffold(disk, ProjectPath)
                    [] OTHER -> disk
       /\ pc' = IF outcome = "ok" THEN "frontend-configure" ELSE "frontend-cleanup"
       /\ log' = Append(log, outcome)
  /\ UNCHANGED <<setup, setupFrame>>

(* steps 4 to 7 on the project at p: index.css, App.css, vite.config.js, *)
(* App.jsx, package.json                                                  *)
Configured(d, p) ==
  LET src == Append(p, "src")
      vite == Append(p, "vite.config.js")
      pkg == Append(p, "package.json")
      d1 == WriteFile(d, Append(src, "index.css"),
                      <<"@import \"tailwindcss\";", "\n", "/*", " ", "Your", " ", "custom",
                        " ", "styles", " ", "here", " ", "*/", "\n">>)
      d2 == Remove(d1, Append(src, "App.css"))
      d3 == IF Exists(d2, vite) THEN WriteFile(d2, vite, UpdateViteConfig(d2[vite].content))
            ELSE d2
      d4 == WriteFile(d3, Append(src, "App.jsx"), <<"clean", "App.jsx">>)
  IN WriteFile(d4, pkg, d4[pkg].content \o <<"scripts">>)

(* steps 4 to 7 of setupFrontend *)
FrontendConfigure ==
  /\ pc = "frontend-configure"
  /\ disk' = Configured(disk, ProjectPath)
  /\ pc' = "done"
  /\ log' = Append(log, "complete")
  /\ UNCHANGED <<setup, setupFrame>>

(* the catch block: the project directory is removed and the error rethrown *)
FrontendCleanup ==
  /\ pc = "frontend-cleanup"
  /\ disk' = IF Exists(disk, ProjectPath) THEN Remove(disk, ProjectPath) ELSE disk
  /\ pc' = "rejected"
  /\ log' = Append(log, "error")
  /\ UNCHANGED <<setup, setupFrame>>

SetupNext ==
  \/ SetupBackend \/ BackendCreateFile \/ BackendInstall
  \/ SetupFrontend \/ FrontendCreate \/ FrontendConfigure \/ FrontendCleanup

SpecSetup == SetupInit /\ [][SetupNext]_vars

(***************************************************************************)
(* setupFullStack: commands/fullstack.js ("cjs": chdir into fullstack-app, *)
(* setupFrontend("client", "react"), setupBackend("server", "nodejs")) and *)
(* the ES-module variant of part_006 / part_007 ("esm": the original       *)
(* directory is saved, and restored at the end of the try block). A call   *)
(* of setupFrontend or setupBackend is one step here, with its outcome.    *)
(***************************************************************************)

FullVariants == {"cjs", "esm"}
FullNames == {"fullstack-app", "app", "web"}

fullFrame == <<disk0, tree, tree0, targetDir, opts, validator, work, stats, runs, results,
               parseVars, genVars, rl>>

(* every createFile of a list in turn, up to the first one that throws *)
RECURSIVE CreateAll(_, _, _, _)
CreateAll(d, base, files, level) ==
  IF files = <<>> THEN [disk |-> d, ok |-> TRUE]
  ELSE LET f == Head(files)
           dir == Join(base, f.dir)
       IN IF ~createFileOk(d, dir, f.name) THEN [disk |-> d, ok |-> FALSE]
          ELSE CreateAll(createFile(d, dir, f.name, Template(level, f.name)),
                         base, Tail(files), level)

(* the files setupBackend(level, name) leaves below base before npm runs *)
BackendWritten(d, base, level, name) ==
  LET projectPath == Append(base, name)
      folders == BackendFolders(level)
      r == EnsureAll(d, <<projectPath>>
                        \o [i \in 1..Len(folders) |-> Join(projectPath, folders[i])])
  IN IF r.ok THEN CreateAll(r.disk, projectPath, BackendFiles(level), level) ELSE r

(* setupFullStack up to the first await: the root folder and process.chdir *)
SetupFullStack ==
  /\ pc = "idle"
  /\ \E variant \in FullVariants, name \in FullNames :
       LET projectPath == Append(cwd, name)
           made == IF variant = "esm" THEN EnsureDirOk(disk, projectPath)
                   ELSE Exists(disk, projectPath) \/ IsDir(disk, cwd)
           entered == made /\ (IsDir(disk, projectPath) \/ ~Exists(disk, projectPath))
       IN /\ variant = "cjs" => name = "fullstack-app"
          /\ setup' = [cmd |-> "fullstack", variant |-> variant, projectName |-> name,
                       originalCwd |-> cwd]
          /\ disk' = IF made /\ ~Exists(disk, projectPath) THEN EnsureDir(disk, projectPath)
                     ELSE disk
          /\ cwd' = IF entered THEN projectPath ELSE cwd
          /\ pc' = IF entered THEN "full-frontend"
                   ELSE IF variant = "esm" THEN "done" ELSE "rejected"
          /\ log' = IF entered THEN <<>> ELSE <<"error">>
  /\ UNCHANGED fullFrame

(* await setupFrontend(...) in the new directory: it returns when the       *)
(* directory exists or the setup succeeds, and rethrows when a step fails   *)
FullFrontend ==
  /\ pc = "full-frontend"
  /\ LET projectPath == Append(cwd, IF setup.variant = "cjs" THEN "client" ELSE "frontend")
         next == IF setup.variant = "cjs" THEN "full-backend" ELSE "full-install"
         thrown == IF setup.variant = "cjs" THEN "rejected" ELSE "done"
     IN IF Exists(disk, projectPath)
        THEN /\ pc' = next /\ log' = Append(log, "exists") /\ UNCHANGED disk
        ELSE \E outcome \in {"ok", "failed-early", "failed-late"} :
               /\ disk' = IF outcome = "ok"
                          THEN Configured(EnsureDir(Scaffold(disk, projectPath),
                                                    Append(projectPath, "node_modules")),
                                          projectPath)
                          ELSE disk
               /\ pc' = IF outcome = "ok" THEN next ELSE thrown
               /\ log' = Append(log, outcome)
  /\ UNCHANGED <<setup, cwd, fullFrame>>

(* execSync("npm install react-router ...", {cwd: frontendPath}) of the esm *)
(* variant: a failure is caught by the catch block of setupFullStack        *)
FullInstall ==
  /\ pc = "full-install"
  /\ LET pkgPath == Join(cwd, <<"frontend", "package.json">>)
     IN \E npmOk \in BOOLEAN :
          IF npmOk /\ IsFile(disk, pkgPath)
          THEN /\ disk' = WriteFile(disk, pkgPath, disk[pkgPath].content \o <<"dependencies">>)
               /\ pc' = "full-backend"
               /\ log' = Append(log, "installed")
          ELSE /\ pc' = "done"
               /\ log' = Append(log, "error")
               /\ UNCHANGED disk
  /\ UNCHANGED <<setup, cwd, fullFrame>>

(* await setupBackend(...), which catches its own errors, and what follows: *)
(* process.chdir(originalCwd) in the esm variant, nothing in the cjs one    *)
FullBackend ==
  /\ pc = "full-backend"
  /\ LET name == IF setup.variant = "cjs" THEN "nodejs" ELSE "backend"
         r == BackendWritten(disk, cwd, IF setup.variant = "cjs" THEN "server" ELSE "Intermediate",
                             name)
         pkgPath == Join(cwd, <<name, "package.json">>)
     IN \E npmOk \in BOOLEAN :
          IF r.ok /\ npmOk /\ ~IsDir(r.disk, pkgPath)
          THEN /\ disk' = WriteFile(r.disk, pkgPath,
                                    NpmPackageJson(r.disk, pkgPath) \o <<"scripts">>)
               /\ log' = Append(log, "complete")
          ELSE /\ disk' = r.disk
               /\ log' = Append(log, "error")
  /\ cwd' = IF setup.variant = "esm" THEN setup.originalCwd ELSE cwd
  /\ pc' = "done"
  /\ UNCHANGED <<setup, fullFrame>>

FullNext == SetupFullStack \/ FullFrontend \/ FullInstall \/ FullBackend

SpecFull == SetupInit /\ [][FullNext]_vars

(***************************************************************************)
(* The legacy parseFolderTree (src/parsers/folderParser.js), the parser of *)
(* commands/structure.js. It runs on the variables of the parser above; a  *)
(* stack frame is the position of a node in the tree, a name is what is    *)
(* left of the line, as tokens.                                            *)
(***************************************************************************)

(* String.prototype.trim on a line: \r is white space too, and stands only *)
(* at the end of a line                                                    *)
LegacyTrim(l) == Trim(StripCR(Trim(l)))

(* tree.split("\n").map((l) => l.trim()).filter(Boolean) *)
LegacyLines(text) ==
  SelectSeq([i \in 1..Len(text) |-> LegacyTrim(text[i])], LAMBDA l : l # <<>>)

(* line.search(/\S/): the number of white-space characters before the first *)
(* other one                                                                *)
LegacyDepth(line) == Len(line) - Len(TrimLeft(line))

(* line.replace(/^[U+251C U+2500 U+2514 ]+/, "").trim() *)
RECURSIVE LegacyStripPrefix(_)
LegacyStripPrefix(line) ==
  IF line # <<>> /\ Head(line) \in {Tee, Dash, Ell, " "}
  THEN LegacyStripPrefix(Tail(line)) ELSE line

LegacyName(line) == LegacyTrim(LegacyStripPrefix(line))

(* while (stack.length > depth + 1) stack.pop() *)
LegacyPop(st, depth) == IF Len(st) > depth + 1 THEN SubSeq(st, 1, depth + 1) ELSE st

(* parseFolderTree(tree) up to the for loop; the stack holds the root *)
LegacyStart ==
  /\ ppc = "idle"
  /\ \E text \in Texts :
       /\ input' = text
       /\ lines' = LegacyLines(text)
  /\ root' = <<>>
  /\ stack' = << <<>> >>
  /\ plog' = <<>>
  /\ ppc' = "legacy-loop"
  /\ UNCHANGED <<mergeVars, genVars, setupVars>>

(* one iteration of the for loop *)
LegacyLine ==
  /\ ppc = "legacy-loop" /\ lines # <<>>
  /\ LET line == Head(lines)
         depth == LegacyDepth(line)
         node == [name |-> LegacyName(line), children |-> <<>>]
         popped == LegacyPop(stack, depth)
         parentPath == popped[Len(popped)]
     IN /\ root' = AttachAt(root, parentPath, node)
        /\ stack' = Append(popped, Append(parentPath, Len(ChildrenAt(root, parentPath)) + 1))
        /\ plog' = Append(plog, LineEntry(line, depth, node.name, "node", "attached", parentPath))
  /\ lines' = Tail(lines)
  /\ UNCHANGED <<input, ppc>>
  /\ UNCHANGED <<mergeVars, genVars, setupVars>>

(* return root *)
LegacyReturn ==
  /\ ppc = "legacy-loop" /\ lines = <<>>
  /\ ppc' = "legacy-done"
  /\ UNCHANGED <<input, lines, root, stack, plog>>
  /\ UNCHANGED <<mergeVars, genVars, setupVars>>

LegacyNext == LegacyStart \/ LegacyLine \/ LegacyReturn

SpecLegacy == ParseInit /\ [][LegacyNext]_vars

(***************************************************************************)
(* The line-by-line input loop of createFromStructure (part_008 92-128).   *)
(*                                                                         *)
(* rl.pending holds the lines the input stream still delivers, rl.received *)
(* the lines the 'line' handler was called with, rl.structure the lines    *)
(* appended to `structure`. rl.close() does not stop the 'line' events of  *)
(* the lines that were read in the same chunk: they are emitted before the *)
(* continuation of the await runs. How the input is cut into chunks is not *)
(* the program's choice, so in state "closed" either may come next.        *)
(***************************************************************************)

MaxStream == 5

StreamLines == { <<"src/">>, <<" ", " ", "app.js">>, <<>>, <<" ">> }

Streams == UNION { [1..n -> StreamLines] : n \in 0..MaxStream }

(* line.trim() === "" *)
IsBlankLine(line) == Trim(line) = <<>>

rlFrame == <<mergeVars, parseVars, genVars, setup, cwd>>

(* readline.createInterface on an input that will deliver some lines *)
RlCreate ==
  /\ rl.state = "idle"
  /\ \E stream \in Streams :
       rl' = [state |-> "open", pending |-> stream, received |-> <<>>,
              structure |-> <<>>, emptyLineCount |-> 0]
  /\ UNCHANGED rlFrame

(* the 'line' handler on the next line *)
RlLine ==
  /\ rl.state \in {"open", "closed"} /\ rl.pending # <<>>
  /\ LET line == Head(rl.pending)
     IN rl' = IF IsBlankLine(line)
              THEN [rl EXCEPT !.pending = Tail(@),
                              !.received = Append(@, line),
                              !.emptyLineCount = @ + 1,
                              !.state = IF rl.emptyLineCount + 1 >= 2 THEN "closed" ELSE @]
              ELSE [rl EXCEPT !.pending = Tail(@),
                              !.received = Append(@, line),
                              !.emptyLineCount = 0,
                              !.structure = Append(@, line)]
  /\ UNCHANGED rlFrame

(* the input stream ends: the 'close' handler resolves the promise *)
RlEnd ==
  /\ rl.state = "open" /\ rl.pending = <<>>
  /\ rl' = [rl EXCEPT !.state = "closed"]
  /\ UNCHANGED rlFrame

(* the continuation of the await: `structure` is read *)
RlContinue ==
  /\ rl.state = "closed"
  /\ rl' = [rl EXCEPT !.state = IF rl.structure = <<>> THEN "aborted" ELSE "collected"]
  /\ UNCHANGED rlFrame

RlNext == RlCreate \/ RlLine \/ RlEnd \/ RlContinue

SpecReadline == ParseInit /\ [][RlNext]_vars

(***************************************************************************)
(* Properties                                                              *)
(***************************************************************************)

InRun == pc \in {"walking", "done", "rejected"}

DefaultOptions ==
  /\ ~opts.dirsOnly /\ opts.skipCritical /\ opts.preserveContent
  /\ opts.projectType = "unknown"

(* the file nodes of a tree with the path each resolves to under dir; the  *)
(* children of a sensitive folder are left out                             *)
RECURSIVE FileTargets(_, _)
FileTargets(nodes, dir) ==
  IF nodes = <<>> THEN {}
  ELSE LET node == Head(nodes)
           path == FinalPath(node, dir)
       IN (IF node.type = "file" THEN {path}
           ELSE IF isSensitiveFolder(node.name) THEN {}
           ELSE FileTargets(node.children, path))
          \cup FileTargets(Tail(nodes), dir)

RECURSIVE HasSensitiveFolder(_)
HasSensitiveFolder(nodes) ==
  /\ nodes # <<>>
  /\ \/ Head(nodes).type = "folder" /\ isSensitiveFolder(Head(nodes).name)
     \/ HasSensitiveFolder(Head(nodes).children)
     \/ HasSensitiveFolder(Tail(nodes))

(* C1: content preservation. Every file that had meaningful content when   *)
(* smartMerge was called still has exactly that content during and after   *)
(* the merge, for every tree and option setting.                           *)
C1_ContentPreserved ==
  InRun =>
    \A p \in DOMAIN disk0 :
      (disk0[p].kind = "file" /\ isContentMeaningful(disk0[p].content))
        => (p \in DOMAIN disk /\ disk[p].content = disk0[p].content)

(* C2: idempotence. A second smartMerge of the same tree into the same      *)
(* target reports created.folders = 0 and created.files = 0 and changes no  *)
(* file. (The clause that every node resolves to PRESERVE is left out: the  *)
(* two counters and the disk already decide it.)                            *)
C2_SecondRunCreatesNothing ==
  (pc = "done" /\ runs = 2) =>
    /\ stats.created.folders = 0
    /\ stats.created.files = 0
    /\ disk = disk0

(* the critical-file set of the claim, matched case-insensitively *)
IsCriticalName(n) == Lower(n) \in { Lower(c) : c \in criticalFiles }

(* C3: critical invariant. With skip-critical active, an existing file on   *)
(* the critical list (README.md and LICENSE included) is never overwritten, *)
(* even when it is empty.                                                   *)
C3_CriticalNeverOverwritten ==
  (InRun /\ opts.skipCritical) =>
    \A p \in DOMAIN disk0 :
      (disk0[p].kind = "file" /\ IsCriticalName(Basename(p)))
        => (p \in DOMAIN disk /\ disk[p].content = disk0[p].content)

(* C4: sensitive invariant. A sensitive folder that did not exist before    *)
(* the merge does not exist after it, wherever in the tree it is named.     *)
C4_SensitiveNeverCreated ==
  InRun =>
    \A p \in DOMAIN disk :
      (disk[p].kind = "dir" /\ Lower(Basename(p)) \in sensitiveFolders)
        => p \in DOMAIN disk0

(* C5: safety boundary. When the merge root is a filesystem root or a       *)
(* system directory the merge aborts before any mutation: the disk stays    *)
(* as it was.                                                               *)
C5_UnsafeRootUntouched ==
  (InRun /\ validateTargetDirectoryThrows(targetDir)) => disk = disk0

(* C6: failure semantics. A filesystem failure on one node is recorded and  *)
(* the walk goes on: the merge call never rejects because of it.            *)
C6_FailureDoesNotReject ==
  (\E i \in 1..Len(log) : log[i].outcome = "error") => pc # "rejected"

(* C7: stats contract. Every visited node increments exactly one of the six *)
(* counters by one, in every option mode, so the counters always sum to the *)
(* number of nodes visited so far.                                          *)
C7_OneCounterPerNode ==
  (InRun /\ pc # "rejected") => StatsSum(stats) = Len(log)

(* C8: no self-nesting. Merging a tree whose single root is a folder named  *)
(* like the basename of the target creates no directory target/<basename>   *)
(* and resolves the root onto the target itself.                            *)
C8_NoSelfNesting ==
  (/\ InRun /\ runs = 1
   /\ Len(tree0) = 1 /\ tree0[1].type = "folder"
   /\ tree0[1].name = Basename(targetDir)
   /\ Len(log) >= 1)
    => /\ log[1].path = targetDir
       /\ Exists(disk, Join(targetDir, <<Basename(targetDir)>>))
            => Exists(disk0, Join(targetDir, <<Basename(targetDir)>>))

(* C9: merging, with the default options, a tree without sensitive folder   *)
(* and without a root named like the target into an empty target creates    *)
(* every node: created counts the tree's folders and files, every file       *)
(* holds its default content, preserved and skipped stay 0.                  *)
C9_EmptyTargetCreatesAll ==
  (/\ pc = "done" /\ runs = 1 /\ DefaultOptions
   /\ disk0 = BaseDisk(targetDir)
   /\ ~HasSensitiveFolder(tree0)
   /\ \A i \in 1..Len(tree0) : tree0[i].name # Basename(targetDir))
    => /\ stats.created.folders = CountNodes(tree0, "folder")
       /\ stats.created.files = CountNodes(tree0, "file")
       /\ stats.preserved = [folders |-> 0, files |-> 0]
       /\ stats.skipped = [folders |-> 0, files |-> 0]

(* C10: with the default options, a file node (outside sensitive folders)   *)
(* whose file exists, readable, with meaningful content is left identical   *)
(* and counted once in preserved.files, never in created.files.             *)
C10_ExistingContentCountedPreserved ==
  (pc = "done" /\ runs = 1 /\ DefaultOptions) =>
    \A p \in FileTargets(tree0, targetDir) :
      (/\ IsFile(disk0, p) /\ disk0[p].readable
       /\ isContentMeaningful(disk0[p].content))
        => /\ disk[p] = disk0[p]
           /\ \E i \in 1..Len(log) : log[i].path = p /\ log[i].outcome = "preserved"
           /\ \A i \in 1..Len(log) : log[i].path = p => log[i].outcome = "preserved"

(* C11: a visited, non-critical file node whose file existed, readable, and *)
(* held no meaningful content (empty, white space, comments only, an empty  *)
(* idiom) is overwritten with the default content of its name and counted   *)
(* as an update in created.files.                                           *)
C11_PlaceholderOverwritten ==
  (InRun /\ ~opts.dirsOnly) =>
    \A i \in 1..Len(log) :
      (/\ log[i].type = "file"
       /\ ~IsCriticalName(log[i].name)
       /\ IsFile(disk0, log[i].path) /\ disk0[log[i].path].readable
       /\ ~isContentMeaningful(disk0[log[i].path].content))
        => /\ log[i].outcome = "updated"
           /\ disk[log[i].path].content = getDefaultContent(log[i].name)

StrictlyUnder(p, q) == IsPrefix(p, q) /\ q # p

(* C12: a folder node named like a sensitive folder (case-insensitively) is *)
(* counted skipped when its path was missing and preserved when it existed, *)
(* never raises an error, and nothing below its path is created, modified   *)
(* or visited.                                                              *)
C12_SensitiveNotRecursed ==
  InRun =>
    /\ \A i \in 1..Len(log) :
         (log[i].type = "folder" /\ Lower(log[i].name) \in sensitiveFolders) =>
           /\ log[i].outcome = IF Exists(disk0, log[i].path) THEN "preserved" ELSE "skipped"
           /\ Exists(disk, log[i].path) <=> Exists(disk0, log[i].path)
           /\ \A q \in (DOMAIN disk) \cup (DOMAIN disk0) :
                StrictlyUnder(log[i].path, q) =>
                  q \in DOMAIN disk /\ q \in DOMAIN disk0 /\ disk[q] = disk0[q]
           /\ \A j \in 1..Len(log) : ~StrictlyUnder(log[i].path, log[j].path)
    /\ stats.skipped.folders =
         Cardinality({ i \in 1..Len(log) : log[i].type = "folder" /\ log[i].outcome = "skipped" })
    /\ stats.preserved.folders =
         Cardinality({ i \in 1..Len(log) : log[i].type = "folder" /\ log[i].outcome = "preserved" })

(* Scenario D with a child: node_modules -> app.js merged where node_modules *)
(* is missing, and the run has completed.                                    *)
C12_Witness ==
  /\ pc = "done"
  /\ Len(tree0) = 2 /\ tree0[1].name = "node_modules" /\ Len(tree0[1].children) = 1
  /\ ~Exists(disk0, Join(targetDir, <<"node_modules">>))
  /\ \E i \in 1..Len(log) : log[i].name = "node_modules" /\ log[i].outcome = "skipped"
  /\ stats.skipped.folders = 1

(* every node of a tree *)
RECURSIVE AllNodes(_)
AllNodes(nodes) ==
  IF nodes = <<>> THEN {}
  ELSE {Head(nodes)} \cup AllNodes(Head(nodes).children) \cup AllNodes(Tail(nodes))

(* line k of the normalised text carries a label and is indented deeper    *)
(* than the File line directly above it                                    *)
WouldBeChildOfFile(k) ==
  /\ k > 1
  /\ plog[k].type # "none"
  /\ plog[k - 1].type = "file" /\ plog[k - 1].outcome = "attached"
  /\ plog[k].level > plog[k - 1].level

(* C13: in every result of parseFolderTree no File node has children, and a *)
(* line indented deeper than the File line directly above it is dropped: it *)
(* yields no node in the tree.                                              *)
C13_ChildOfFileDropped ==
  /\ \A n \in AllNodes(root) : n.type = "file" => n.children = <<>>
  /\ \A k \in 1..Len(plog) : WouldBeChildOfFile(k) => plog[k].outcome # "attached"

(* what the loop has done so far is what the claim allows: every line gone  *)
(* through is either without a label and skipped, or attached as one node;  *)
(* the stack never runs empty, so no line is lost to a missing parent       *)
ParsedSoFarOk ==
  ppc # "idle" =>
    /\ Len(plog) + Len(lines) = Len(NormalizeLines(input))
    /\ stack # <<>>
    /\ \A k \in 1..Len(plog) :
         plog[k].outcome = IF CleanLine(plog[k].raw) = <<>> THEN "skipped" ELSE "attached"
    /\ CountNodes(root, "folder") + CountNodes(root, "file")
         = Cardinality({ k \in 1..Len(plog) : plog[k].outcome = "attached" })

(* every iteration of the loop consumes one line, and the call returns    *)
(* once no line is left                                                    *)
ParseProgress ==
  ppc = "loop" => \/ ppc' = "loop" /\ Len(lines') = Len(lines) - 1
                  \/ ppc' = "done" /\ lines = <<>>

RECURSIVE FolderPaths(_, _)
FolderPaths(nodes, prefix) ==
  IF nodes = <<>> THEN {}
  ELSE (IF Head(nodes).type = "folder"
        THEN {Append(prefix, Head(nodes).name)}
             \cup FolderPaths(Head(nodes).children, Append(prefix, Head(nodes).name))
        ELSE {})
       \cup FolderPaths(Tail(nodes), prefix)

(* smartMerge has called validateAndAdjustStructure and not yet visited a  *)
(* node: the one frame of the walk holds the tree the adjuster returned    *)
JustAdjusted == pc = "walking" /\ log = <<>> /\ runs = 1

AdjustedTree == IF work = <<>> THEN <<>> ELSE work[1].nodes

(* C15: the adjuster retains every folder. Each Folder node of the input    *)
(* tree is in the tree validateAndAdjustStructure returns, whatever the     *)
(* project type and the disk; the output has no more nodes than the input.  *)
C15_FoldersRetained ==
  JustAdjusted =>
    /\ FolderPaths(tree0, <<>>) \subseteq FolderPaths(AdjustedTree, <<>>)
    /\ CountNodes(AdjustedTree, "folder") = CountNodes(tree0, "folder")
    /\ CountNodes(AdjustedTree, "file") <= CountNodes(tree0, "file")

(* C16: with preserveExisting enabled the TemplateGenerator only creates    *)
(* what is missing: an existing readable file that holds any non-comment    *)
(* text keeps its content.                                                  *)
C16_GeneratorPreservesContent ==
  (InRun /\ genOptions.preserveExisting) =>
    \A p \in DOMAIN disk0 :
      (/\ disk0[p].kind = "file" /\ disk0[p].readable
       /\ isContentMeaningful(disk0[p].content))
        => (p \in DOMAIN disk /\ disk[p].content = disk0[p].content)

(* C17: the setup commands prevent conflicts with an existing directory:    *)
(* when the directory named for setupBackend or setupFrontend existed, every *)
(* file that was in it is still there, unchanged.                            *)
C17_ExistingProjectUntouched ==
  (setup.cmd # "none" /\ IsDir(disk0, ProjectPath)) =>
    \A p \in DOMAIN disk0 :
      (StrictlyUnder(ProjectPath, p) /\ disk0[p].kind = "file")
        => (p \in DOMAIN disk /\ disk[p] = disk0[p])

(* the file decision table of the specification, first matching row *)
TableRow(o, exists, critical, meaningful) ==
  IF o.dirsOnly THEN "none"
  ELSE IF o.skipCritical /\ exists /\ critical THEN "preserved"
  ELSE IF exists /\ meaningful THEN "preserved"
  ELSE IF exists THEN "updated"
  ELSE "created"

(* C18: every handleFile step on a path that is missing or a readable file, *)
(* and that can be written, has the outcome of the first matching row of    *)
(* the file decision table: none under dirs-only, PRESERVE for an existing  *)
(* critical file under skip-critical, PRESERVE for meaningful content,      *)
(* UPDATE for empty or placeholder content, CREATE for a missing path.      *)
C18_FileDecisionTable ==
  [][(/\ pc = "walking" /\ work # <<>> /\ CurNode.type # "folder"
      /\ LET targetPath == FinalPath(CurNode, CurDir)
         IN /\ Exists(disk, targetPath) => (IsFile(disk, targetPath) /\ disk[targetPath].readable)
            /\ WriteFileOk(disk, targetPath))
     => LET targetPath == FinalPath(CurNode, CurDir)
            exists == Exists(disk, targetPath)
        IN log'[Len(log')].outcome =
             TableRow(opts, exists, isCriticalFile(CurNode.name),
                      exists /\ isContentMeaningful(disk[targetPath].content))]_vars

(* C19: an existing file that cannot be read is treated as having content:  *)
(* the adjuster's fileHasContent and the executor's has-content test both   *)
(* answer yes for it, and once its node has been handled the file is as it  *)
(* was and the step is logged as preserved.                                 *)
C19_UnreadableTreatedAsContent ==
  (InRun /\ runs = 1 /\ ~opts.dirsOnly) =>
    \A p \in DOMAIN disk0 :
      (IsFile(disk0, p) /\ ~disk0[p].readable) =>
        \A i \in 1..Len(log) :
          (log[i].path = p /\ log[i].type = "file")
            => /\ log[i].outcome = "preserved" /\ disk[p] = disk0[p]
               /\ fileHasContentCJS(disk0, p)
               /\ hasContent(getFileContent(disk0, p))

(* C20: the adjuster and the executor classify every readable file of the   *)
(* target alike: StructureValidator.fileHasContent and the has-content test *)
(* of handleFile give the same verdict on its content.                      *)
C20_SameClassification ==
  (InRun /\ runs = 1) =>
    \A p \in DOMAIN disk0 :
      (IsFile(disk0, p) /\ disk0[p].readable) =>
        (fileHasContentCJS(disk0, p) <=> hasContent(getFileContent(disk0, p)))

(* C21: a node without targetPath is resolved to <parent directory>/<name>, *)
(* except a root-level folder named like the merge root, which is resolved  *)
(* to the merge root; a folder at depth >= 1 named like its parent          *)
(* directory is resolved to <parent>/<name>.                                *)
C21_CollapseOnlyAtRoot ==
  [][(pc = "walking" /\ work # <<>> /\ CurNode.targetPath = <<>>)
     => log'[Len(log')].path =
          IF Len(work) = 1 /\ CurNode.type = "folder" /\ CurNode.name = Basename(targetDir)
          THEN targetDir
          ELSE Join(CurDir, Segments(CurNode.name))]_vars

(* the nodes of a tree in document order, a folder before its children; the *)
(* children of a sensitive folder are not part of the walk                  *)
RECURSIVE PreOrder(_)
PreOrder(nodes) ==
  IF nodes = <<>> THEN <<>>
  ELSE LET node == Head(nodes)
       IN <<[type |-> node.type, name |-> node.name]>>
          \o (IF node.type = "folder" /\ ~isSensitiveFolder(node.name)
              THEN PreOrder(node.children) ELSE <<>>)
          \o PreOrder(Tail(nodes))

(* the tree the first run walks *)
Adjusted0 == validateAndAdjustStructure(tree0, opts.projectType, targetDir, disk0).adjusted

(* the handled nodes are the first nodes of the adjusted tree in pre-order, *)
(* all of them once the run has returned                                    *)
WalkIsPreOrder ==
  (InRun /\ runs = 1) =>
    LET order == PreOrder(Adjusted0)
    IN /\ Len(log) <= Len(order)
       /\ \A i \in 1..Len(log) :
            log[i].type = order[i].type /\ log[i].name = order[i].name
       /\ pc = "done" => Len(log) = Len(order)

(* a step handles one node; a node below the root level is handled in a    *)
(* directory an earlier step decided on (created or preserved); a file is  *)
(* written only where its parent directory exists                          *)
ParentDecidedFirst ==
  (pc = "walking" /\ work # <<>>) =>
    /\ Len(log') = Len(log) + 1
    /\ SubSeq(log', 1, Len(log)) = log
    /\ Len(work) >= 2 =>
         \E i \in 1..Len(log) :
           /\ log[i].type = "folder" /\ log[i].path = CurDir
           /\ log[i].outcome \in {"created", "preserved"}
    /\ \A p \in DOMAIN disk' :
         (p \notin DOMAIN disk \/ disk'[p] # disk[p]) /\ disk'[p].kind = "file"
           => IsDir(disk, Parent(p))

(* C22: the merge walk is sequential and pre-order: nodes are handled one   *)
(* at a time in document order, a child only after its parent folder's     *)
(* create/preserve decision, and a file is written only into an existing   *)
(* directory.                                                              *)
C22_SequentialPreOrder == []WalkIsPreOrder /\ [][ParentDecidedFirst]_vars

(* C22 witness: a finished run that created a folder and then created a    *)
(* file in it, followed by a later sibling of the folder.                  *)
C22_Witness ==
  /\ pc = "done" /\ runs = 1
  /\ \E i, j, k \in 1..Len(log) :
       /\ i < j /\ j < k
       /\ log[i].type = "folder" /\ log[i].outcome = "created"
       /\ log[j].type = "file" /\ log[j].outcome = "created"
       /\ Parent(log[j].path) = log[i].path
       /\ Parent(log[k].path) = Parent(log[i].path)

(* the prospective paths of the file nodes of a tree: <parent>/<name> *)
RECURSIVE FilePaths(_, _)
FilePaths(nodes, dir) ==
  IF nodes = <<>> THEN {}
  ELSE LET node == Head(nodes)
           path == Join(dir, Segments(node.name))
       IN (IF node.type = "file" THEN {path} ELSE FilePaths(node.children, path))
          \cup FilePaths(Tail(nodes), dir)

(* C23: the adjuster removes a file node exactly when its prospective path  *)
(* exists on disk and the file there is critical or has content; a file     *)
(* node whose counterpart is missing, empty or a placeholder is retained,   *)
(* at every depth.                                                          *)
C23_ConflictFiltering ==
  (InRun /\ runs = 1) =>
    \A p \in FilePaths(tree0, targetDir) :
      (p \in FilePaths(Adjusted0, targetDir))
        <=> ~(/\ Exists(disk0, p)
              /\ \/ isCriticalFileCJS(Basename(p), opts.projectType)
                 \/ fileHasContentCJS(disk0, p))

(* C24: convention remapping sets targetPath only when the canonical parent *)
(* directory exists under the base path: when <base>/src is absent, no node *)
(* of the adjusted tree carries a targetPath, whatever the project type.    *)
C24_RemapOnlyIfParentExists ==
  (InRun /\ runs = 1 /\ ~Exists(disk0, Join(targetDir, <<"src">>))) =>
    \A i \in 1..Len(Adjusted0) : Adjusted0[i].targetPath = <<>>

(* the lines handled so far that became a node *)
Attached == { k \in 1..Len(plog) : plog[k].outcome = "attached" }

(* the position in the tree of the node of line k: its parent's position   *)
(* and its rank among the lines attached to that parent so far             *)
NodePath(k) ==
  IF k = 0 THEN <<>>
  ELSE Append(plog[k].parent,
              Cardinality({ m \in Attached : m <= k /\ plog[m].parent = plog[k].parent }))

(* the most recent folder line before line k with a strictly smaller level, *)
(* 0 (the top level) if there is none                                       *)
LastShallowerFolder(k) ==
  LET cand == { j \in Attached : /\ j < k /\ plog[j].type = "folder"
                                 /\ plog[j].level < plog[k].level }
  IN IF cand = {} THEN 0 ELSE CHOOSE j \in cand : \A i \in cand : i <= j

(* the same, among the folder lines still open at line k: no line between   *)
(* the folder and line k is at the folder's level or shallower              *)
LastOpenFolder(k) ==
  LET cand == { j \in Attached :
                  /\ j < k /\ plog[j].type = "folder" /\ plog[j].level < plog[k].level
                  /\ \A m \in Attached : (j < m /\ m < k) => plog[m].level > plog[j].level }
  IN IF cand = {} THEN 0 ELSE CHOOSE j \in cand : \A i \in cand : i <= j

(* the node of every attached line is in the tree at its position, in input *)
(* order among its siblings                                                 *)
TreeMatchesLines ==
  \A k \in Attached :
    LET siblings == ChildrenAt(root, plog[k].parent)
        rank == NodePath(k)[Len(NodePath(k))]
    IN /\ rank <= Len(siblings)
       /\ siblings[rank].name = plog[k].name
       /\ siblings[rank].type = plog[k].type

LabelOf(rawLine) == Head(CleanLine(rawLine))

(* C26: parseFolderTree makes a label a Folder exactly when it ends with    *)
(* '/', contains no '.', or is in the known-folder list whatever its case;  *)
(* every other label is a File. An extension-less name such as LICENSE is a *)
(* Folder.                                                                  *)
C26_FolderClassification ==
  ppc # "idle" =>
    \A k \in Attached :
      LET label == LabelOf(plog[k].raw)
      IN /\ plog[k].type = "folder"
              <=> \/ EndsWithSlash(label)
                  \/ ~IncludesDot(label)
                  \/ Lower(label) \in knownFolders
         /\ plog[k].type \in {"folder", "file"}
         /\ label = "LICENSE" => plog[k].type = "folder"
         /\ label \in {"app.js", "index.css", "README.md"} => plog[k].type = "file"

(* C26 witness: a finished parse that classified LICENSE and the dotted     *)
(* known folder .Git as folders and app.js as a file.                       *)
C26_Witness ==
  /\ ppc = "done"
  /\ \E i, j, k \in Attached :
       /\ plog[i].name = "LICENSE" /\ plog[i].type = "folder"
       /\ plog[j].name = ".Git" /\ plog[j].type = "folder"
       /\ plog[k].name = "app.js" /\ plog[k].type = "file"

(* the number of leading blanks of a line as it was typed *)
LeadingBlanks(rawLine) == Len(rawLine) - Len(TrimLeft(rawLine))

(* C27: the legacy parseFolderTree derives depth from the leading spaces: a *)
(* line with more leading indentation than the line before it becomes a     *)
(* child of that line.                                                      *)
C27_LegacyIndentNests ==
  ppc \in {"legacy-loop", "legacy-done"} =>
    \A k \in 2..Len(plog) :
      LeadingBlanks(input[k]) > LeadingBlanks(input[k - 1])
        => plog[k].parent = NodePath(k - 1)

(* pairs of file nodes of the same name under two different root folders,   *)
(* each as its prospective path                                             *)
SameNameFiles ==
  { <<Join(targetDir, <<tree0[i].name, tree0[i].children[a].name>>),
      Join(targetDir, <<tree0[j].name, tree0[j].children[b].name>>)>> :
      <<i, j, a, b>> \in
        { q \in (1..Len(tree0)) \X (1..Len(tree0)) \X (1..2) \X (1..2) :
            /\ q[1] # q[2]
            /\ tree0[q[1]].type = "folder" /\ tree0[q[2]].type = "folder"
            /\ tree0[q[1]].name # tree0[q[2]].name
            /\ q[3] <= Len(tree0[q[1]].children) /\ q[4] <= Len(tree0[q[2]].children)
            /\ tree0[q[1]].children[q[3]].type = "file"
            /\ tree0[q[2]].children[q[4]].type = "file"
            /\ tree0[q[1]].children[q[3]].name = tree0[q[2]].children[q[4]].name } }

(* C28: a node is never removed because a node of the same type and name    *)
(* exists under another parent: of two root folders that each hold a file   *)
(* of the same name, absent from the disk, both files are in the adjusted   *)
(* tree.                                                                    *)
C28_SameNameUnderOtherParentKept ==
  (InRun /\ runs = 1) =>
    \A pair \in SameNameFiles :
      (~Exists(disk0, pair[1]) /\ ~Exists(disk0, pair[2]))
        => /\ pair[1] \in FilePaths(Adjusted0, targetDir)
           /\ pair[2] \in FilePaths(Adjusted0, targetDir)

(* the position of the second of the first two consecutive blank lines of  *)
(* a stream, its length if there are none                                  *)
EndOfCollection(s) ==
  LET ends == { i \in 2..Len(s) : IsBlankLine(s[i - 1]) /\ IsBlankLine(s[i]) }
  IN IF ends = {} THEN Len(s) ELSE CHOOSE i \in ends : \A j \in ends : i <= j

(* C29: the collection ends exactly at the second of two consecutive blank  *)
(* lines or at the end of the stream: the structure read after the loop is  *)
(* the non-blank lines received up to there, once each, in arrival order.   *)
C29_CollectionEndsAtTwoBlanks ==
  rl.state \in {"collected", "aborted"} =>
    rl.structure = SelectSeq(SubSeq(rl.received, 1, EndOfCollection(rl.received)),
                             LAMBDA l : ~IsBlankLine(l))

(* C30: once setupFullStack has returned or rejected, the working directory *)
(* of the process is the one it was called in.                              *)
C30_WorkingDirectoryRestored ==
  (setup.cmd = "fullstack" /\ pc \in {"done", "rejected"}) => cwd = setup.originalCwd

====
